---------------------------- MODULE Spec2Model ----------------------------
(***************************************************************************)
(* Hydrostatics and stability of a hull defined by longitudinal curves     *)
(* (fenix-io/kayakish): hull build, equilibrium waterline solver and the   *)
(* stability (GZ) sweep.                                                   *)
(*                                                                         *)
(* Fixed point: lengths are millimetres, masses handed to the operations   *)
(* are tenths of a kilogram, displaced masses are grams (1 cm^3 of water   *)
(* = 1 g), angles are whole degrees, sines and cosines are scaled by       *)
(* TrigScale.                                                              *)
(***************************************************************************)
EXTENDS Integers, Sequences, FiniteSets, TLC

\* Python's None, and a value that is present: an optional value is a
\* sequence of length 0 or 1.
None == <<>>

Some(v) == <<v>>

Val(o) == o[1]

\* ------------------------------------------------------------ arithmetic

Abs(v) == IF v < 0 THEN -v ELSE v

Min2(a, b) == IF a <= b THEN a ELSE b

Max2(a, b) == IF a >= b THEN a ELSE b

\* n / d rounded to the nearest integer (d > 0): the fixed-point image of a
\* floating-point quotient.
RoundDiv(n, d) == (2 * n + d) \div (2 * d)

\* np.sin on the first quadrant, degrees, scaled by TrigScale.
SinQ(a) ==
    CASE a = 0 -> 0
      [] a = 15 -> 259
      [] a = 30 -> 500
      [] a = 45 -> 707
      [] a = 60 -> 866
      [] a = 75 -> 966
      [] a = 90 -> 1000

SinMilli(a) ==
    LET m == Abs(a)
        s == IF m <= 90 THEN SinQ(m) ELSE SinQ(180 - m)
    IN  IF a < 0 THEN -s ELSE s

CosMilli(a) ==
    LET m == Abs(a)
    IN  IF m <= 90 THEN SinQ(90 - m) ELSE -SinQ(m - 90)

\* The scale of SinMilli and CosMilli: the image of 1.0.
TrigScale == SinQ(90)

\* ---------------------------------------------------------------- points

Point3D(x, y, z) == [x |-> x, y |-> y, z |-> z]

RECURSIVE SumSeq(_)
SumSeq(s) == IF s = <<>> THEN 0 ELSE Head(s) + SumSeq(Tail(s))

SeqMin(s) == CHOOSE v \in {s[i] : i \in DOMAIN s} : \A i \in DOMAIN s : v <= s[i]

SeqMax(s) == CHOOSE v \in {s[i] : i \in DOMAIN s} : \A i \in DOMAIN s : v >= s[i]

\* ---------------------------------------------------------------- curves

\* Spline3D.apply_rotation_on_x_axis: every control point rotated about
\* `origin` in the transverse/vertical plane; a new point list is returned.
\* A rotation with the sign of one sine term slipped.
RotatePointSignSlip(p, origin, angle_degrees) ==
    LET cos_a == CosMilli(angle_degrees)
        sin_a == SinMilli(angle_degrees)
        y == p.y - origin.y
        z == p.z - origin.z
        y_new == RoundDiv(y * cos_a + z * sin_a, TrigScale)
        z_new == RoundDiv(y * sin_a + z * cos_a, TrigScale)
    IN  Point3D(p.x, y_new + origin.y, z_new + origin.z)

RotatePoint(p, origin, angle_degrees) ==
    LET cos_a == CosMilli(angle_degrees)
        sin_a == SinMilli(angle_degrees)
        y == p.y - origin.y
        z == p.z - origin.z
        y_new == RoundDiv(y * cos_a - z * sin_a, TrigScale)
        z_new == RoundDiv(y * sin_a + z * cos_a, TrigScale)
    IN  Point3D(p.x, y_new + origin.y, z_new + origin.z)

\* Point3D.rotate_x(angle_deg): the rotation matrix about the x-axis is
\* applied for the negated angle (positive angle = starboard down).
rotate_x(p, angle_deg) ==
    LET cos_a == CosMilli(-angle_deg)
        sin_a == SinMilli(-angle_deg)
        new_x == p.x
        new_y == RoundDiv(p.y * cos_a - p.z * sin_a, TrigScale)
        new_z == RoundDiv(p.y * sin_a + p.z * cos_a, TrigScale)
    IN  Point3D(new_x, new_y, new_z)

\* The rotated copy is made by Spline3D's constructor: it carries the name and
\* the rotated control points, and no mirrored flag.
apply_rotation_on_x_axis(curve, origin, angle_degrees) ==
    [name |-> curve.name,
     points |-> [i \in DOMAIN curve.points |->
                    RotatePoint(curve.points[i], origin, angle_degrees)]]

\* Spline3D.eval_x under the 'x' parametrization.  The interpolant through
\* the control points is represented by its chords: between two neighbouring
\* control points the point on the straight line through them is returned
\* (on two control points PchipInterpolator is that line).  Outside the span
\* the ValueError is the value None; inside it Some(point).
eval_x(curve, x_obj) ==
    LET n == Len(curve.points)
        x_min == curve.points[1].x
        x_max == curve.points[n].x
        Holds(i) == /\ Min2(curve.points[i].x, curve.points[i + 1].x) <= x_obj
                    /\ x_obj <= Max2(curve.points[i].x, curve.points[i + 1].x)
    IN  IF ~(Min2(x_min, x_max) <= x_obj /\ x_obj <= Max2(x_min, x_max))
        THEN None
        ELSE LET i == CHOOSE k \in 1..(n - 1) :
                          Holds(k) /\ \A j \in 1..(k - 1) : ~Holds(j)
                 p1 == curve.points[i]
                 p2 == curve.points[i + 1]
             IN  IF p2.x = p1.x
                 THEN Some(Point3D(x_obj, p1.y, p1.z))
                 ELSE Some(Point3D(x_obj,
                          p1.y + RoundDiv((p2.y - p1.y) * (x_obj - p1.x), p2.x - p1.x),
                          p1.z + RoundDiv((p2.z - p1.z) * (x_obj - p1.x), p2.x - p1.x)))

\* np.sqrt on a non-negative integer, rounded down: the largest r in lo..hi
\* with r * r <= n.
RECURSIVE SqrtBetween(_, _, _)
SqrtBetween(n, lo, hi) ==
    IF lo >= hi THEN lo
    ELSE LET mid == (lo + hi + 1) \div 2
         IN  IF mid * mid <= n THEN SqrtBetween(n, mid, hi)
             ELSE SqrtBetween(n, lo, mid - 1)

Sqrt(n) == SqrtBetween(n, 0, Min2(n, 46340))

\* np.all(np.diff(xs) > 0) and np.all(np.diff(xs) < 0).
StrictlyIncreasing(xs) == \A i \in 1..(Len(xs) - 1) : xs[i] < xs[i + 1]

StrictlyDecreasing(xs) == \A i \in 1..(Len(xs) - 1) : xs[i] > xs[i + 1]

\* np.concatenate(([0], np.cumsum(dist))): the cumulative chord length at
\* each control point.
RECURSIVE CumulativeChord(_, _)
CumulativeChord(points, i) ==
    IF i = 1 THEN <<0>>
    ELSE LET before == CumulativeChord(points, i - 1)
             a == points[i - 1]
             b == points[i]
             dist == Sqrt((b.x - a.x) * (b.x - a.x) + (b.y - a.y) * (b.y - a.y)
                            + (b.z - a.z) * (b.z - a.z))
         IN  Append(before, before[i - 1] + dist)

\* Spline3D.build: the parametrization is settled ('auto' is 'x' when x is
\* strictly monotonic, else 'chord') and the breakpoints t are laid out: the
\* control points' own x under 'x', the cumulative chord length under 'chord'.
build(points, parametrization) ==
    LET x == [i \in DOMAIN points |-> points[i].x]
        x_monotonic == StrictlyIncreasing(x) \/ StrictlyDecreasing(x)
        settled == IF parametrization = "auto"
                   THEN (IF x_monotonic THEN "x" ELSE "chord")
                   ELSE parametrization
    IN  [parametrization |-> settled,
         t |-> IF settled = "x" THEN x ELSE CumulativeChord(points, Len(points))]

\* Spline3D.__init__: the attributes of a spline whose interpolants were built.
Spline3D(name, points, parametrization) ==
    LET built == build(points, parametrization)
    IN  [name |-> name, points |-> points,
         parametrization |-> built.parametrization, t |-> built.t]

\* Curve.__init__: a Spline3D with the mirrored flag.
Curve(name, points, parametrization, mirrored) ==
    LET spline == Spline3D(name, points, parametrization)
    IN  [name |-> spline.name, points |-> spline.points,
         parametrization |-> spline.parametrization, t |-> spline.t,
         mirrored |-> mirrored]

\* Spline3D.eval_x without the range checks: x outside the span is answered
\* from the nearest end segment.
eval_x_unchecked(spline, x_obj) ==
    LET n == Len(spline.points)
        Holds(i) == /\ Min2(spline.points[i].x, spline.points[i + 1].x) <= x_obj
                    /\ x_obj <= Max2(spline.points[i].x, spline.points[i + 1].x)
        segs == {i \in 1..(n - 1) : Holds(i)}
        i == IF segs = {} THEN 1 ELSE CHOOSE k \in segs : \A j \in segs : k <= j
        p1 == spline.points[i]
        p2 == spline.points[i + 1]
    IN  IF p2.x = p1.x
        THEN {Some(Point3D(x_obj, p1.y, p1.z))}
        ELSE {Some(Point3D(x_obj,
                     p1.y + RoundDiv((p2.y - p1.y) * (x_obj - p1.x), p2.x - p1.x),
                     p1.z + RoundDiv((p2.z - p1.z) * (x_obj - p1.x), p2.x - p1.x)))}

\* Spline3D.eval_x under either parametrization: the set of outcomes of the
\* call, None standing for ValueError("Requested x is outside the curve
\* range").  Under 'chord' the range is the one between sx(t_min) and
\* sx(t_max), the x of the first and of the last control point, and brentq
\* returns a root of sx(tau) - x_obj: a point of one of the segments on
\* which x passes through x_obj.
Spline3D_eval_x(spline, x_obj) ==
    IF spline.parametrization = "x"
    THEN {eval_x(spline, x_obj)}
    ELSE LET n == Len(spline.points)
             x_min == spline.points[1].x
             x_max == spline.points[n].x
             Holds(i) == /\ Min2(spline.points[i].x, spline.points[i + 1].x) <= x_obj
                         /\ x_obj <= Max2(spline.points[i].x, spline.points[i + 1].x)
             OnSegment(i) ==
                 LET p1 == spline.points[i]
                     p2 == spline.points[i + 1]
                 IN  IF p2.x = p1.x
                     THEN Point3D(x_obj, p1.y, p1.z)
                     ELSE Point3D(x_obj,
                            p1.y + RoundDiv((p2.y - p1.y) * (x_obj - p1.x), p2.x - p1.x),
                            p1.z + RoundDiv((p2.z - p1.z) * (x_obj - p1.x), p2.x - p1.x))
         IN  IF ~(Min2(x_min, x_max) <= x_obj /\ x_obj <= Max2(x_min, x_max))
             THEN {None}
             ELSE {Some(OnSegment(i)) : i \in {k \in 1..(n - 1) : Holds(k)}}

\* A sampling step that takes a point from the curve whatever the station.
sample_curve_unchecked(spline, x) ==
    { <<Val(o)>> : o \in eval_x_unchecked(spline, x) }

\* The body of the sampling loop, `try: points.append(curve.eval_x(x))
\* except ValueError: continue`: what one curve adds to the station's points,
\* for each outcome of eval_x.
sample_curve(spline, x) ==
    { IF o = None THEN <<>> ELSE <<Val(o)>> : o \in Spline3D_eval_x(spline, x) }

\* The sampling loop over the hull's curves at station x: the lists of points
\* it can collect.
RECURSIVE sample_points(_, _)
sample_points(curves, x) ==
    IF curves = <<>> THEN { <<>> }
    ELSE { first \o rest : first \in sample_curve(Head(curves), x),
                           rest \in sample_points(Tail(curves), x) }

\* --------------------------------------------------------------- profile

\* Profile.__init__: coincident points are removed, the first one of each
\* group is kept.
RECURSIVE RemoveDuplicates(_, _)
RemoveDuplicates(points, kept) ==
    IF points = <<>> THEN kept
    ELSE LET p == Head(points)
             seen == \E i \in DOMAIN kept : kept[i].y = p.y /\ kept[i].z = p.z
         IN  RemoveDuplicates(Tail(points), IF seen THEN kept ELSE Append(kept, p))

\* The direction of p seen from the centre c of the points, as a vector
\* scaled by the number n of points (c holds the coordinate sums, so that
\* the centre, the mean of the points, is c / n).
CentreVector(c, p) == [y |-> c.n * p.y - c.y, z |-> c.n * p.z - c.z]

\* The half of (-pi, pi] that atan2(v.z, v.y) falls in, in increasing order.
AngleBand(v) ==
    IF v.z < 0 THEN 0
    ELSE IF v.z = 0 /\ v.y >= 0 THEN 1
    ELSE IF v.z > 0 THEN 2
    ELSE 3

\* atan2(a.z, a.y) < atan2(b.z, b.y)
AngleLess(a, b) ==
    \/ AngleBand(a) < AngleBand(b)
    \/ /\ AngleBand(a) = AngleBand(b)
       /\ a.y * b.z - a.z * b.y > 0

RECURSIVE InsertByAngle(_, _, _)
InsertByAngle(sorted, p, c) ==
    IF sorted = <<>> THEN <<p>>
    ELSE IF AngleLess(CentreVector(c, p), CentreVector(c, Head(sorted)))
         THEN <<p>> \o sorted
         ELSE <<Head(sorted)>> \o InsertByAngle(Tail(sorted), p, c)

RECURSIVE SortFrom(_, _, _, _)
SortFrom(points, i, sorted, c) ==
    IF i > Len(points) THEN sorted
    ELSE SortFrom(points, i + 1, InsertByAngle(sorted, points[i], c), c)

\* Profile.sort_points: counterclockwise around the centre of the points in
\* the transverse/vertical plane; fewer than 3 points are left as they are.
sort_points(points) ==
    IF Len(points) < 3 THEN points
    ELSE SortFrom(points, 1, <<>>,
                  [n |-> Len(points),
                   y |-> SumSeq([i \in DOMAIN points |-> points[i].y]),
                   z |-> SumSeq([i \in DOMAIN points |-> points[i].z])])

\* Profile(station, points)
Profile(station, points) ==
    [station |-> station, points |-> sort_points(RemoveDuplicates(points, <<>>))]

is_valid(profile) == Len(profile.points) >= 3

\* Sum over the polygon edges (i, i+1 cyclically) of the cross products:
\* twice the signed area.
CrossSum(pts) ==
    LET n == Len(pts)
    IN  SumSeq([i \in 1..n |->
            pts[i].y * pts[(i % n) + 1].z - pts[(i % n) + 1].y * pts[i].z])

\* Profile.calculate_area (shoelace), as twice the area so that it stays an
\* integer; zero for fewer than 3 points.
calculate_area2(profile) ==
    IF ~is_valid(profile) THEN 0 ELSE Abs(CrossSum(profile.points))

\* Profile.calculate_centroid: (0, 0) for an invalid or zero-area profile.
calculate_centroid(profile) ==
    LET pts == profile.points
        n == Len(pts)
        a2 == CrossSum(pts)
        cross(i) == pts[i].y * pts[(i % n) + 1].z - pts[(i % n) + 1].y * pts[i].z
        my == SumSeq([i \in 1..n |-> (pts[i].y + pts[(i % n) + 1].y) * cross(i)])
        mz == SumSeq([i \in 1..n |-> (pts[i].z + pts[(i % n) + 1].z) * cross(i)])
    IN  IF ~is_valid(profile) \/ a2 = 0
        THEN [y |-> 0, z |-> 0]
        ELSE [y |-> RoundDiv(my * (IF a2 < 0 THEN -1 ELSE 1), 3 * Abs(a2)),
              z |-> RoundDiv(mz * (IF a2 < 0 THEN -1 ELSE 1), 3 * Abs(a2))]

\* Profile.calculate_volume_and_cg(step): the thin slab of thickness `step`
\* (mm) on the profile; volume in cm^3, that is grams of water.
calculate_volume_and_cg(profile, step) ==
    LET c == calculate_centroid(profile)
    IN  [volume |-> (calculate_area2(profile) * step) \div 2000,
         cg |-> Point3D(profile.station, c.y, c.z)]

\* Hull._get_points_below_waterline: the circular point list is walked; each
\* point at or below the waterline is kept and each edge that crosses the
\* waterline contributes its interpolated intersection.
RECURSIVE WalkBelow(_, _, _, _)
WalkBelow(pts, i, waterline, acc) ==
    IF i > Len(pts) THEN acc
    ELSE LET p == pts[i]
             q == pts[(i % Len(pts)) + 1]
             keep == IF p.z <= waterline THEN <<p>> ELSE <<>>
             crosses == \/ (p.z < waterline /\ waterline < q.z)
                        \/ (q.z < waterline /\ waterline < p.z)
             cut == IF crosses
                    THEN <<Point3D(p.x,
                                   p.y + RoundDiv((waterline - p.z) * (q.y - p.y)
                                                    * (IF q.z < p.z THEN -1 ELSE 1),
                                                  Abs(q.z - p.z)),
                                   waterline)>>
                    ELSE <<>>
         IN  WalkBelow(pts, i + 1, waterline, acc \o keep \o cut)

get_points_below_waterline(points, waterline) ==
    IF Len(points) < 3 THEN <<>>
    ELSE WalkBelow(sort_points(RemoveDuplicates(points, <<>>)), 1, waterline, <<>>)

\* ------------------------------------------------------------------ hull

\* The longitudinal sampling step of the stations (mm).
StationStep == 500

\* Convergence tolerance of the equilibrium solver: 1 kg, in grams.
Tolerance == 1000

\* Iteration limit of the equilibrium solver.
MaxIterations == 8

\* Masses handed to the operations are in units of 0.1 kg.
Grams(mass) == mass * 100

\* build: the mirror of a curve, the transverse coordinate negated.
MirrorCurve(curve) ==
    [name |-> "Mirror of " \o curve.name,
     points |-> [i \in DOMAIN curve.points |->
                    Point3D(curve.points[i].x, -curve.points[i].y, curve.points[i].z)],
     mirrored |-> TRUE]

\* A test that takes every curve to lie off the centerline.
AnyCurve(curve) == curve.points # <<>>

\* build: a curve is mirrored when one of its points lies off the centerline.
HasOffset(curve) == \E i \in DOMAIN curve.points : curve.points[i].y # 0

\* build: the supplied curves, each followed by its mirror when it has a
\* point off the centerline.
RECURSIVE WithMirrors(_)
WithMirrors(curves) ==
    IF curves = <<>> THEN <<>>
    ELSE LET c == [name |-> Head(curves).name, points |-> Head(curves).points,
                   mirrored |-> FALSE]
         IN  (IF HasOffset(c) THEN <<c, MirrorCurve(c)>> ELSE <<c>>)
                \o WithMirrors(Tail(curves))

RECURSIVE AllPoints(_)
AllPoints(curves) ==
    IF curves = <<>> THEN <<>> ELSE Head(curves).points \o AllPoints(Tail(curves))

\* Hull._update_min_max over every control point: the bounding box.
Bounds(curves) ==
    LET pts == AllPoints(curves)
    IN  [min_x |-> SeqMin([i \in DOMAIN pts |-> pts[i].x]),
         max_x |-> SeqMax([i \in DOMAIN pts |-> pts[i].x]),
         min_y |-> SeqMin([i \in DOMAIN pts |-> pts[i].y]),
         max_y |-> SeqMax([i \in DOMAIN pts |-> pts[i].y]),
         min_z |-> SeqMin([i \in DOMAIN pts |-> pts[i].z]),
         max_z |-> SeqMax([i \in DOMAIN pts |-> pts[i].z])]

\* The sampled stations: min_x, min_x + step, ... up to max_x.
Stations(min_x, max_x) ==
    [k \in 1..((max_x - min_x) \div StationStep + 1) |-> min_x + (k - 1) * StationStep]

\* Hull._get_points_at: one point from each curve that spans x; a curve that
\* does not span x contributes nothing.
RECURSIVE get_points_at(_, _)
get_points_at(curves, x) ==
    IF curves = <<>> THEN <<>>
    ELSE eval_x(Head(curves), x) \o get_points_at(Tail(curves), x)

\* A sampling that keeps a profile of whatever the station collects.
ProfileOfAny(curves, x) == <<Profile(x, get_points_at(curves, x))>>

\* build, at one sampled station: the profile of the collected points, or
\* nothing when fewer than 3 points were collected.
ProfileAt(curves, x) ==
    LET pts == get_points_at(curves, x)
    IN  IF Len(pts) >= 3 THEN <<Profile(x, pts)>> ELSE <<>>

\* build: one profile per sampled station that yields at least 3 points.
RECURSIVE MakeProfiles(_, _)
MakeProfiles(curves, stations) ==
    IF stations = <<>> THEN <<>>
    ELSE ProfileAt(curves, Head(stations)) \o MakeProfiles(curves, Tail(stations))

\* Thin-slab integration: the slabs' volumes added up and their centroids
\* combined by volume.  cg is None when the volume is not positive.
IntegrateSlabs(profiles) ==
    LET slabs == [i \in DOMAIN profiles |-> calculate_volume_and_cg(profiles[i], StationStep)]
        volume == SumSeq([i \in DOMAIN slabs |-> slabs[i].volume])
        mx == SumSeq([i \in DOMAIN slabs |-> slabs[i].volume * (slabs[i].cg.x \div 10)])
        my == SumSeq([i \in DOMAIN slabs |-> slabs[i].volume * slabs[i].cg.y])
        mz == SumSeq([i \in DOMAIN slabs |-> slabs[i].volume * slabs[i].cg.z])
    IN  [volume |-> volume,
         cg |-> IF volume <= 0 THEN None
                ELSE Some(Point3D(RoundDiv(mx, volume) * 10, RoundDiv(my, volume),
                                  RoundDiv(mz, volume)))]

\* ----------------------------------------------------- equilibrium solver

\* The submerged part of the hull at a candidate waterline: each station's
\* points are clipped to the waterline and the clipped profiles integrated.
Submerged(curves, stations, waterline) ==
    IntegrateSlabs([i \in DOMAIN stations |->
        Profile(stations[i],
                get_points_below_waterline(get_points_at(curves, stations[i]), waterline))])

\* The curves the solver works on: rotated about the hull's centre of
\* gravity, or the hull's own curves at angle 0.
LeanedCurves(h, angle) ==
    IF angle = 0 THEN h.curves
    ELSE [i \in DOMAIN h.curves |->
            apply_rotation_on_x_axis(h.curves[i], Val(h.cg), angle)]

\* First guess: the known waterline, else target_waterline, else a third of
\* the depth.
InitialWaterline(h) ==
    IF h.waterline # None THEN Val(h.waterline)
    ELSE IF h.target_waterline # None THEN Val(h.target_waterline)
    ELSE (h.max_z - h.min_z) \div 3

SolverStart(h, weight, angle) ==
    [status |-> "running", weight |-> weight, angle |-> angle,
     waterline |-> InitialWaterline(h), iteration |-> 0,
     cb |-> None, displacement |-> None]

\* A solver that, where the correction leaves the hull's vertical extent,
\* returns the nearest waterline of the extent instead of failing.
SolverStepClamps(h, s) ==
    LET sub == Submerged(LeanedCurves(h, s.angle), Stations(h.min_x, h.max_x), s.waterline)
        error == Grams(s.weight) - sub.volume
        next == s.waterline + RoundDiv(error * s.waterline, Grams(s.weight))
    IN  IF s.iteration >= MaxIterations
        THEN [s EXCEPT !.status = "nonconvergent"]
        ELSE IF Abs(error) <= Tolerance
        THEN [s EXCEPT !.status = "converged", !.cb = sub.cg, !.displacement = Some(sub.volume)]
        ELSE IF next < h.min_z \/ next > h.max_z
        THEN [s EXCEPT !.status = "converged", !.waterline = Min2(Max2(next, h.min_z), h.max_z),
                       !.cb = sub.cg, !.displacement = Some(sub.volume)]
        ELSE [s EXCEPT !.waterline = next, !.iteration = s.iteration + 1]

\* A solver that does not count its iterations.
SolverStepForgetsCount(h, s) ==
    LET sub == Submerged(LeanedCurves(h, s.angle), Stations(h.min_x, h.max_x), s.waterline)
        error == Grams(s.weight) - sub.volume
        next == s.waterline + RoundDiv(error * s.waterline, Grams(s.weight))
    IN  IF s.iteration >= MaxIterations
        THEN [s EXCEPT !.status = "nonconvergent"]
        ELSE IF Abs(error) <= Tolerance
        THEN [s EXCEPT !.status = "converged", !.cb = sub.cg, !.displacement = Some(sub.volume)]
        ELSE IF next < h.min_z \/ next > h.max_z
        THEN [s EXCEPT !.status = "out_of_bounds", !.waterline = next]
        ELSE [s EXCEPT !.waterline = next]

\* A solver that accepts a mass error of up to twice the tolerance.
SolverStepLoose(h, s) ==
    LET sub == Submerged(LeanedCurves(h, s.angle), Stations(h.min_x, h.max_x), s.waterline)
        error == Grams(s.weight) - sub.volume
        next == s.waterline + RoundDiv(error * s.waterline, Grams(s.weight))
    IN  IF s.iteration >= MaxIterations
        THEN [s EXCEPT !.status = "nonconvergent"]
        ELSE IF Abs(error) <= 2 * Tolerance
        THEN [s EXCEPT !.status = "converged", !.cb = sub.cg, !.displacement = Some(sub.volume)]
        ELSE IF next < h.min_z \/ next > h.max_z
        THEN [s EXCEPT !.status = "out_of_bounds", !.waterline = next]
        ELSE [s EXCEPT !.waterline = next, !.iteration = s.iteration + 1]

\* A solver that accepts a mass error of up to five times the tolerance.
SolverStepSloppy(h, s) ==
    LET sub == Submerged(LeanedCurves(h, s.angle), Stations(h.min_x, h.max_x), s.waterline)
        error == Grams(s.weight) - sub.volume
        next == s.waterline + RoundDiv(error * s.waterline, Grams(s.weight))
    IN  IF s.iteration >= MaxIterations
        THEN [s EXCEPT !.status = "nonconvergent"]
        ELSE IF Abs(error) <= 5 * Tolerance
        THEN [s EXCEPT !.status = "converged", !.cb = sub.cg, !.displacement = Some(sub.volume)]
        ELSE IF next < h.min_z \/ next > h.max_z
        THEN [s EXCEPT !.status = "out_of_bounds", !.waterline = next]
        ELSE [s EXCEPT !.waterline = next, !.iteration = s.iteration + 1]

\* One iteration of Hull._calculate_waterline.
SolverStep(h, s) ==
    LET sub == Submerged(LeanedCurves(h, s.angle), Stations(h.min_x, h.max_x), s.waterline)
        error == Grams(s.weight) - sub.volume
        next == s.waterline + RoundDiv(error * s.waterline, Grams(s.weight))
    IN  IF s.iteration >= MaxIterations
        THEN [s EXCEPT !.status = "nonconvergent"]
        ELSE IF Abs(error) <= Tolerance
        THEN [s EXCEPT !.status = "converged", !.cb = sub.cg, !.displacement = Some(sub.volume)]
        ELSE IF next < h.min_z \/ next > h.max_z
        THEN [s EXCEPT !.status = "out_of_bounds", !.waterline = next]
        ELSE [s EXCEPT !.waterline = next, !.iteration = s.iteration + 1]

\* Hull._calculate_waterline(weight, angle) run to its end.
RECURSIVE RunSolver(_, _)
RunSolver(h, s) ==
    IF s.status # "running" THEN s
    ELSE CHOOSE r \in { RunSolver(h, t) : t \in { SolverStep(h, s) } } : TRUE

calculate_waterline(h, weight, angle) == RunSolver(h, SolverStart(h, weight, angle))

\* ------------------------------------------------------ stability engine

\* GRAVITY = 9.81 m/s^2, in cm/s^2.
GRAVITY == 981

\* Python's `value or default`: the default replaces None and also 0.
PyOr(value, default) ==
    IF value # None /\ Val(value) # 0 THEN Val(value) ELSE default

\* calculate_combined_cg: the payload sits at the hull CG's longitudinal
\* position, on the centerline, at height payload_cg_z.
calculate_combined_cg(hull_weight, hull_cg, payload_weight, payload_cg_z) ==
    LET total_weight == hull_weight + payload_weight
        payload_cg_x == hull_cg.x
        payload_cg_y == 0
    IN  Point3D(
          RoundDiv(hull_weight * hull_cg.x + payload_weight * payload_cg_x, total_weight),
          RoundDiv(hull_weight * hull_cg.y + payload_weight * payload_cg_y, total_weight),
          RoundDiv(hull_weight * hull_cg.z + payload_weight * payload_cg_z, total_weight))

\* np.arange(0, max_angle + step, step): 0, step, 2*step, ... below
\* max_angle + step.
arange(stop, step) == [i \in 1..((stop + step - 1) \div step) |-> (i - 1) * step]

\* The body of the sweep loop after the solver has returned: the combined CG
\* is rotated about the hull CG, GZ and the moment are derived, and the
\* stability point is built.
StabilityPoint(h, combined_cg, total_weight, angle_deg, sol) ==
    LET hull_cg == Val(h.cg)
        cb == Val(sol.cb)
        rel_y == combined_cg.y - hull_cg.y
        rel_z == combined_cg.z - hull_cg.z
        cos_a == CosMilli(angle_deg)
        sin_a == SinMilli(angle_deg)
        rotated_rel_y == RoundDiv(rel_y * cos_a - rel_z * sin_a, TrigScale)
        rotated_rel_z == RoundDiv(rel_y * sin_a + rel_z * cos_a, TrigScale)
        combined_cg_y_rotated == hull_cg.y + rotated_rel_y
        combined_cg_z_rotated == hull_cg.z + rotated_rel_z
        gz == combined_cg_y_rotated - cb.y
        moment == total_weight * GRAVITY * gz
    IN  [angle |-> angle_deg, gz |-> gz, moment |-> moment,
         cb_y |-> cb.y, cb_z |-> cb.z,
         cg_y |-> combined_cg_y_rotated, cg_z |-> combined_cg_z_rotated,
         waterline |-> sol.waterline, displacement |-> Val(sol.displacement)]

\* A crossing taken halfway between the two points.
CrossingMidpoint(p1, p2) == (p1.angle + p2.angle) * 500

\* The interpolated zero crossing between two consecutive points, in
\* thousandths of a degree.
Crossing(p1, p2) ==
    LET gz1 == p1.gz
        gz2 == p2.gz
        a1 == p1.angle
        a2 == p2.angle
    IN  a1 * 1000 + RoundDiv((0 - gz1) * (a2 - a1) * 1000, gz2 - gz1)

\* The scan after the sweep (for i in range(1, len(stability_points))): it
\* stops at the first change of GZ from non-negative to negative, and up to
\* there keeps the largest moment seen and its angle.
RECURSIVE ScanFrom(_, _, _)
ScanFrom(points, i, acc) ==
    IF i > Len(points) THEN acc
    ELSE IF points[i].gz < 0 /\ points[i - 1].gz >= 0
    THEN [acc EXCEPT !.vanishing_angle = Some(Crossing(points[i - 1], points[i]))]
    ELSE ScanFrom(points, i + 1,
                  IF points[i].moment > acc.max_moment
                  THEN [acc EXCEPT !.max_moment = points[i].moment,
                                   !.max_moment_angle = points[i].angle]
                  ELSE acc)

ScanPoints(points) ==
    ScanFrom(points, 2, [vanishing_angle |-> None, max_moment |-> 0, max_moment_angle |-> 0])


\* -------------------------------------------------------------- the inputs

\* A hull definition of two straight longitudinal curves, a lower one at
\* (y0, z0) and an upper one at (y1, z1), over x in 0..1000.
TwoCurves(lower, y0, z0, upper, y1, z1) ==
    << [name |-> lower, points |-> <<Point3D(0, y0, z0), Point3D(1000, y0, z0)>>],
       [name |-> upper, points |-> <<Point3D(0, y1, z1), Point3D(1000, y1, z1)>>] >>

\* A hull definition whose curves have different spans: a centerline keel
\* and a gunwale over x in 0..500 only, a chine over x in 0..1000.  The
\* station at x = 1000 collects the chine and its mirror, two points.
StubCurves ==
    << [name |-> "keel", points |-> <<Point3D(0, 0, -50), Point3D(500, 0, -50)>>],
       [name |-> "chine", points |-> <<Point3D(0, 250, 0), Point3D(1000, 250, 0)>>],
       [name |-> "gunwale", points |-> <<Point3D(0, 250, 200), Point3D(500, 250, 200)>>] >>

\* The hull shapes offered to build: a wide box, a narrow deep box, a flared
\* trapezoid, a vee on a centerline keel, a flat sheet without volume, and
\* a stub whose keel and gunwale end amidships.
Shapes ==
    { [name |-> "wide",   curves |-> TwoCurves("chine", 250, 0, "gunwale", 250, 200)],
      [name |-> "narrow", curves |-> TwoCurves("chine", 100, 0, "gunwale", 100, 300)],
      [name |-> "flare",  curves |-> TwoCurves("chine", 50, 0, "gunwale", 200, 300)],
      [name |-> "vee",    curves |-> TwoCurves("keel", 0, 0, "gunwale", 150, 300)],
      [name |-> "flat",   curves |-> TwoCurves("keel", 0, 0, "chine", 10, 0)],
      [name |-> "stub",   curves |-> StubCurves] }

\* The design targets offered to build: masses in tenths of a kilogram.
Designs ==
    { [target_waterline |-> Some(100), target_weight |-> 100, target_payload |-> 300],
      [target_waterline |-> None,      target_weight |-> 100, target_payload |-> 500],
      [target_waterline |-> Some(300), target_weight |-> 100, target_payload |-> 805] }

BuildData ==
    { [name |-> s.name, curves |-> s.curves, target_waterline |-> d.target_waterline,
       target_weight |-> d.target_weight, target_payload |-> d.target_payload] :
      s \in Shapes, d \in Designs }

\* The arguments offered to the stability sweep.
SweepArgs ==
    [ paddler_cg_z : {100, 250},
      paddler_weight : {None, Some(0), Some(400)},
      hull_weight : {None, Some(150)},
      max_angle : {60, 100},
      step : {30, 45},
      break_on_vanishing : BOOLEAN ]

\* ------------------------------------------ the profile of geometry/profile.py

\* sorted(self.points, key=lambda p: p.y): a stable sort by y.
RECURSIVE InsertByY(_, _)
InsertByY(sorted, p) ==
    IF sorted = <<>> THEN <<p>>
    ELSE IF p.y < Head(sorted).y THEN <<p>> \o sorted
         ELSE <<Head(sorted)>> \o InsertByY(Tail(sorted), p)

RECURSIVE SortedByY(_)
SortedByY(points) ==
    IF points = <<>> THEN <<>>
    ELSE InsertByY(SortedByY(SubSeq(points, 1, Len(points) - 1)), points[Len(points)])

\* n / d rounded to the nearest integer, d of either sign.
SignedRoundDiv(n, d) == IF d > 0 THEN RoundDiv(n, d) ELSE RoundDiv(-n, -d)

\* The loop of Profile._get_submerged_polygon from segment i on: p1 is kept
\* when it is at or below the waterline, and the crossing of the waterline is
\* inserted when the segment passes through it.
RECURSIVE SubmergedWalk(_, _, _, _, _)
SubmergedWalk(sorted_points, i, station, waterline_z, polygon) ==
    IF i > Len(sorted_points) - 1 THEN polygon
    ELSE LET p1 == sorted_points[i]
             p2 == sorted_points[i + 1]
             with_p1 == IF p1.z <= waterline_z THEN Append(polygon, p1) ELSE polygon
             crosses == \/ (p1.z < waterline_z /\ waterline_z < p2.z)
                        \/ (p2.z < waterline_z /\ waterline_z < p1.z)
             y_intersect == p1.y + SignedRoundDiv((waterline_z - p1.z) * (p2.y - p1.y),
                                                  p2.z - p1.z)
         IN  SubmergedWalk(sorted_points, i + 1, station, waterline_z,
                           IF crosses
                           THEN Append(with_p1, Point3D(station, y_intersect, waterline_z))
                           ELSE with_p1)

\* Profile._get_submerged_polygon: Some(polygon), or None for the IndexError
\* of sorted_points[-1] on a profile without points.
get_submerged_polygon(profile, waterline_z) ==
    LET sorted_points == SortedByY(profile.points)
        polygon == SubmergedWalk(sorted_points, 1, profile.station, waterline_z, <<>>)
    IN  IF sorted_points = <<>> THEN None
        ELSE IF sorted_points[Len(sorted_points)].z <= waterline_z
             THEN Some(Append(polygon, sorted_points[Len(sorted_points)]))
             ELSE Some(polygon)

\* Profile.calculate_area_below_waterline: how the call ends, and twice the
\* area it returns: |sum(y[i] * (z[i+1] - z[i-1]))|, indices taken around.
calculate_area_below_waterline(profile, waterline_z) ==
    LET submerged == get_submerged_polygon(profile, waterline_z)
    IN  IF submerged = None THEN [raised |-> "IndexError", value |-> None]
        ELSE LET pts == Val(submerged)
                 n == Len(pts)
                 Around(i) == ((i - 1) % n) + 1
             IN  IF n < 3 THEN [raised |-> "", value |-> Some(0)]
                 ELSE [raised |-> "",
                       value |-> Some(Abs(SumSeq([i \in 1..n |->
                                    pts[i].y * (pts[Around(i + 1)].z
                                                  - pts[Around(i - 1 + n)].z)])))]

\* Profile.calculate_centroid_below_waterline, called after the area was
\* computed: (0, 0) for fewer than 3 submerged points or no area, else the
\* polygon formula divided by 6 times the (unsigned) area.
calculate_centroid_below_waterline(profile, waterline_z) ==
    LET pts == Val(get_submerged_polygon(profile, waterline_z))
        n == Len(pts)
        area2 == Val(calculate_area_below_waterline(profile, waterline_z).value)
        Next1(i) == (i % n) + 1
        Cross(i) == pts[i].y * pts[Next1(i)].z - pts[Next1(i)].y * pts[i].z
    IN  IF n < 3 \/ area2 = 0 THEN [y |-> 0, z |-> 0]
        ELSE [y |-> SignedRoundDiv(SumSeq([i \in 1..n |->
                        (pts[i].y + pts[Next1(i)].y) * Cross(i)]), 3 * area2),
              z |-> SignedRoundDiv(SumSeq([i \in 1..n |->
                        (pts[i].z + pts[Next1(i)].z) * Cross(i)]), 3 * area2)]

\* calculate_section_properties(profile, waterline_z) at heel angle 0: the
\* area (doubled) and the centroid of the submerged part, or the IndexError
\* of the area computation.
calculate_section_properties(profile, waterline_z) ==
    LET area == calculate_area_below_waterline(profile, waterline_z)
    IN  IF area.raised # "" THEN [raised |-> area.raised, value |-> None]
        ELSE LET centroid == calculate_centroid_below_waterline(profile, waterline_z)
             IN  [raised |-> "",
                  value |-> Some([area |-> Val(area.value), centroid_y |-> centroid.y,
                                  centroid_z |-> centroid.z, station |-> profile.station])]

\* ------------------------------------------------------------- KayakHull

\* sorted(keys): the elements of a set of numbers in ascending order.
RECURSIVE sorted(_)
sorted(keys) ==
    IF keys = {} THEN <<>>
    ELSE LET least == CHOOSE k \in keys : \A j \in keys : k <= j
         IN  <<least>> \o sorted(keys \ {least})

\* A KayakHull as its methods see it: the profiles dictionary, station to
\* profile, and the cached list of sorted stations, None when not computed.
\* (hull.py:78 sets the cache to None; the methods use self.profiles as a
\* dictionary.)
KayakHull == [profiles |-> <<>>, sorted_stations |-> None]

\* self.profiles[station] = profile
DictSet(profiles, station, profile) ==
    [k \in (DOMAIN profiles) \cup {station} |->
        IF k = station THEN profile ELSE profiles[k]]

\* del self.profiles[station]
DictDel(profiles, station) == [k \in (DOMAIN profiles) \ {station} |-> profiles[k]]

\* integrate_trapezoidal(x, y), doubled: the sum of h * (y[i] + y[i+1]).
integrate_trapezoidal(x, y) ==
    IF Len(x) < 2 THEN 0
    ELSE SumSeq([i \in 1..(Len(x) - 1) |-> (x[i + 1] - x[i]) * (y[i] + y[i + 1])])

\* integrate_simpson(x, y), doubled: nothing for fewer than 2 points, the
\* trapezoid for 2, and Simpson's rule for the 3 equally spaced stations of
\* the model, 2 * (h / 3) * (y0 + 4 y1 + y2).
integrate_simpson(x, y) ==
    IF Len(x) < 2 THEN 0
    ELSE IF Len(x) = 2 THEN (y[1] + y[2]) * (x[2] - x[1])
    ELSE SignedRoundDiv(2 * (x[2] - x[1]) * (y[1] + 4 * y[2] + y[3]), 3)

\* calculate_center_of_buoyancy past the section loop: stations is
\* hull.get_stations() and props holds what calculate_section_properties
\* gave at each station.  The areas and the integrals are both carried
\* doubled, so volume is four times the volume in cubic millimetres; the
\* quotients lcb, vcb and tcb are millimetres.
CenterOfBuoyancyFrom(stations, props, waterline_z) ==
    LET a == [i \in DOMAIN stations |-> Val(props[i].value).area]
        volume == integrate_simpson(stations, a)
        moment_x == integrate_simpson(stations,
                        [i \in DOMAIN stations |-> a[i] * stations[i]])
        moment_y == integrate_simpson(stations,
                        [i \in DOMAIN stations |-> a[i] * Val(props[i].value).centroid_y])
        moment_z == integrate_simpson(stations,
                        [i \in DOMAIN stations |-> a[i] * Val(props[i].value).centroid_z])
    IN  IF \E i \in DOMAIN stations : props[i].raised # ""
        THEN [raised |-> "IndexError", value |-> None]
        ELSE IF volume <= 0 THEN [raised |-> "ValueError", value |-> None]
        ELSE [raised |-> "",
              value |-> Some([lcb |-> Some(SignedRoundDiv(moment_x, volume)),
                              vcb |-> Some(SignedRoundDiv(moment_z, volume)),
                              tcb |-> Some(SignedRoundDiv(moment_y, volume)),
                              volume |-> volume, waterline_z |-> waterline_z,
                              num_stations |-> Len(stations)])]

\* calculate_center_of_buoyancy(hull, waterline_z) with the defaults (heel
\* angle 0, the hull's own stations, Simpson): how the call ends, and the
\* CenterOfBuoyancy it returns.  (The stations and the section properties
\* are each computed once and bound.)
calculate_center_of_buoyancy(k, waterline_z) ==
    CHOOSE out \in
        { IF Len(stations) < 2 THEN [raised |-> "ValueError", value |-> None]
          ELSE CHOOSE r \in
                   { CenterOfBuoyancyFrom(stations, props, waterline_z) :
                       props \in { [i \in DOMAIN stations |->
                                      calculate_section_properties(
                                          k.profiles[stations[i]], waterline_z)] } } : TRUE
          : stations \in { sorted(DOMAIN k.profiles) } } : TRUE

\* The loop of calculate_cb_curve from waterline i on: a ValueError of the
\* centre-of-buoyancy computation is caught and answered with a
\* CenterOfBuoyancy of volume 0.0 and NaN coordinates (None); any other
\* exception leaves the function.
RECURSIVE CbCurveFrom(_, _, _, _)
CbCurveFrom(k, waterlines, i, results) ==
    IF i > Len(waterlines) THEN [raised |-> "", value |-> Some(results)]
    ELSE CHOOSE out \in
        { IF cb.raised = ""
          THEN CbCurveFrom(k, waterlines, i + 1, Append(results, Val(cb.value)))
          ELSE IF cb.raised = "ValueError"
          THEN CbCurveFrom(k, waterlines, i + 1,
                   Append(results, [lcb |-> None, vcb |-> None, tcb |-> None,
                                    volume |-> 0, waterline_z |-> waterlines[i],
                                    num_stations |-> Cardinality(DOMAIN k.profiles)]))
          ELSE [raised |-> cb.raised, value |-> None]
          : cb \in { calculate_center_of_buoyancy(k, waterlines[i]) } } : TRUE

calculate_cb_curve(k, waterlines) == CbCurveFrom(k, waterlines, 1, <<>>)

\* ------------------------------------------------------ the hull routes

\* Hull names are sequences of characters.  The characters of the names
\* offered: \w matches the letters and the underscore, \s the blank.
IsWord(c) == c \in {"a", "b", "A", "B", "_"}

IsSpace(c) == c = " "

\* str.lower() on one character.
Lower(c) == IF c = "A" THEN "a" ELSE IF c = "B" THEN "b" ELSE c

\* re.sub(r"[^\w\s-]", "", name)
IsKept(c) == IsWord(c) \/ IsSpace(c) \/ c = "-"

\* str.strip()
RECURSIVE Strip(_)
Strip(name) ==
    IF name = <<>> THEN <<>>
    ELSE IF IsSpace(Head(name)) THEN Strip(Tail(name))
    ELSE IF IsSpace(name[Len(name)]) THEN Strip(SubSeq(name, 1, Len(name) - 1))
    ELSE name

\* re.sub(r"\s+", replacement, clean_name): each run of blanks becomes one
\* replacement character.
RECURSIVE ReplaceBlanks(_, _)
ReplaceBlanks(name, replacement) ==
    IF name = <<>> THEN <<>>
    ELSE IF ~IsSpace(Head(name))
    THEN <<Head(name)>> \o ReplaceBlanks(Tail(name), replacement)
    ELSE IF Len(name) >= 2 /\ IsSpace(name[2])
    THEN ReplaceBlanks(Tail(name), replacement)
    ELSE <<replacement>> \o ReplaceBlanks(Tail(name), replacement)

\* sanitize_filename(name): the characters other than word characters, blanks
\* and hyphens are removed, the ends stripped, the blanks replaced by "_",
\* an empty result replaced by "unnamed", and the whole put in lower case.
sanitize_filename(name) ==
    LET removed == SelectSeq(name, IsKept)
        stripped == Strip(removed)
        replaced == ReplaceBlanks(stripped, "_")
        clean_name == IF replaced = <<>>
                      THEN <<"u", "n", "n", "a", "m", "e", "d">>
                      ELSE replaced
    IN  [i \in DOMAIN clean_name |-> Lower(clean_name[i])]

\* The hull names offered to the routes: "a", "A " and "/".
HullNames == { <<"a">>, <<"A", " ">>, <<"/">> }

\* The file names of the data directory (without the .hull suffix).
FileNames == { sanitize_filename(name) : name \in HullNames }

\* The clients that send a create request at the same time.
Clients == {1, 2}

\* No request of a client at work.
NoRequest == [pc |-> "idle", model |-> <<>>, status |-> 0]

\* ------------------------------------------------------------- the program

VARIABLES
    hull,      \* the Hull object
    pc,        \* where the program is: "new", "building", "ready", "failed",
               \* "sweep_loop", "sweep_solving", "compare"
    solver,    \* the running call of Hull._calculate_waterline
    twin,      \* a second, independent call of the solver on the same hull
    sweep,     \* the locals of create_stability_curve_points
    points,    \* stability_points
    result,    \* what the last sweep returned, None before it returns
    error,     \* the exception raised by the last operation, "" if none
    held,      \* an earlier Hull object its caller still holds, None if none
    kayak,     \* a KayakHull object
    curve,     \* a Curve object
    section,   \* a Profile object
    ret,       \* the last call on kayak, curve or section, or the last request
               \* to the hull routes, and how it ended
    files,     \* the hull files of the data directory: file name to content
    reqs,      \* the create requests being handled at the same time
    built      \* what hull.build makes of each hull definition offered

\* The Hull, its solver and the sweep.
core == <<hull, pc, solver, twin, sweep, points, result, error>>

\* The data directory and the requests at work on it.
store == <<files, reqs, built>>

\* The objects of the geometry classes that are exercised on their own.
aux == <<held, kayak, curve, section, ret, store>>

vars == <<core, aux>>

\* Hull(): nothing computed yet.
EmptyHull ==
    [name |-> "", target_waterline |-> None, target_weight |-> 0, target_payload |-> 0,
     curves |-> <<>>, profiles |-> <<>>,
     min_x |-> 0, max_x |-> 0, min_y |-> 0, max_y |-> 0, min_z |-> 0, max_z |-> 0,
     volume |-> 0, cg |-> None, waterline |-> None, cb |-> None, displacement |-> None]

Idle ==
    [status |-> "idle", weight |-> 0, angle |-> 0, waterline |-> 0, iteration |-> 0,
     cb |-> None, displacement |-> None]

NoSweep ==
    [args |-> None, hull_weight |-> 0, paddler_weight |-> 0, total_weight |-> 0,
     combined_cg |-> None, angles |-> <<>>, i |-> 0]

\* The exception a finished, unconverged solver call raises.
Raised(s) ==
    IF s.status = "nonconvergent" THEN "WaterlineNonconvergent" ELSE "WaterlineOutOfBounds"

\* No call made yet on a geometry object.
NoCall == [op |-> "", arg |-> None, raised |-> "", value |-> None]

\* A fresh Hull(), nothing running.
CoreInit ==
    /\ hull = EmptyHull
    /\ pc = "new"
    /\ solver = Idle
    /\ twin = Idle
    /\ sweep = NoSweep
    /\ points = <<>>
    /\ result = None
    /\ error = ""

\* Hull.build up to the equilibrium solve: the targets are stored, the curves
\* mirrored, the bounding box taken, the profiles sampled and the volume and
\* centre of gravity integrated.
BuildGeometry(data) ==
    LET curves == WithMirrors(data.curves)
        box == Bounds(curves)
        profiles == MakeProfiles(curves, Stations(box.min_x, box.max_x))
        whole == IntegrateSlabs(profiles)
    IN  [name |-> data.name, target_waterline |-> data.target_waterline,
         target_weight |-> data.target_weight, target_payload |-> data.target_payload,
         curves |-> curves, profiles |-> profiles,
         min_x |-> box.min_x, max_x |-> box.max_x, min_y |-> box.min_y,
         max_y |-> box.max_y, min_z |-> box.min_z, max_z |-> box.max_z,
         volume |-> whole.volume, cg |-> whole.cg,
         waterline |-> None, cb |-> None, displacement |-> None]

\* Hull.build(data), first part: the geometry; a hull without volume is
\* rejected, any other goes on to the equilibrium solve for the design mass.
BuildStart(data) ==
    /\ pc = "new"
    /\ hull' = BuildGeometry(data)
    /\ IF hull'.volume <= 0
       THEN /\ pc' = "failed"
            /\ error' = "DegenerateGeometry"
            /\ solver' = Idle
       ELSE /\ pc' = "building"
            /\ error' = ""
            /\ solver' = SolverStart(hull', data.target_weight + data.target_payload, 0)
    /\ UNCHANGED <<twin, sweep, points, result>>
    /\ UNCHANGED aux

\* One pass of the solver's loop.
SolverIterate ==
    /\ solver.status = "running"
    /\ solver' = SolverStep(hull, solver)
    /\ UNCHANGED <<hull, pc, twin, sweep, points, result, error>>
    /\ UNCHANGED aux

\* Hull.build, last part: the solved waterline, centre of buoyancy and
\* displacement are stored, or the solver's failure leaves build.
BuildFinish ==
    /\ pc = "building"
    /\ solver.status \notin {"running", "idle"}
    /\ IF solver.status = "converged"
       THEN /\ hull' = [hull EXCEPT !.waterline = Some(solver.waterline),
                                    !.cb = solver.cb,
                                    !.displacement = solver.displacement]
            /\ pc' = "ready"
            /\ error' = ""
       ELSE /\ hull' = hull
            /\ pc' = "failed"
            /\ error' = Raised(solver)
    /\ solver' = Idle
    /\ UNCHANGED <<twin, sweep, points, result>>
    /\ UNCHANGED aux

\* The hull definitions offered to the routes: a name and the curves and
\* targets of one of the builds; "vee" is one whose build raises a waterline
\* error.
HullModels ==
    { [d EXCEPT !.name = name] :
        name \in HullNames,
        d \in { b \in BuildData : b.name \in {"wide", "narrow", "vee"}
                                   /\ b.target_payload = 300 } }

\* hull.build(...) as the routes call it, from start to finish: the exception
\* it raises, "" if none, and the hull it leaves.
Hull_build(data) ==
    CHOOSE out \in
        { IF g.volume <= 0
          THEN [raised |-> "DegenerateGeometry", hull |-> g]
          ELSE CHOOSE r \in
                 { IF sol.status = "converged"
                   THEN [raised |-> "",
                         hull |-> [g EXCEPT !.waterline = Some(sol.waterline),
                                            !.cb = sol.cb,
                                            !.displacement = sol.displacement]]
                   ELSE [raised |-> Raised(sol), hull |-> g] :
                   sol \in { calculate_waterline(g, data.target_weight
                                                     + data.target_payload, 0) } } : TRUE :
          g \in { BuildGeometry(data) } } : TRUE

\* What build makes of each of the hull definitions.
Builds == { [hull_model |-> m, out |-> Hull_build(m)] : m \in HullModels }

\* What build makes of one of them: build depends on nothing but the
\* definition, and its outcomes are worked out once.
BuildOf(hull_model) == (CHOOSE b \in built : b.hull_model = hull_model).out


\* No other object made yet, no hull stored, no request at work.
ObjectsInit ==
    /\ held = None
    /\ kayak = None
    /\ curve = None
    /\ section = None
    /\ ret = NoCall
    /\ files = [f \in FileNames |-> None]
    /\ reqs = [c \in Clients |-> NoRequest]

\* No hull definition offered to the routes.
AuxInit == ObjectsInit /\ built = {}

Init == CoreInit /\ AuxInit

\* The server at its start: the data directory empty, the hull definitions
\* that will be offered and what build makes of each.
RoutesInit == CoreInit /\ ObjectsInit /\ built = Builds

\* The stored hulls offered to initialize_from_data: a box whose curves all
\* lie to one side of the centerline, saved with the values a build of the
\* same curves about their own axis computes.
StoredData ==
    LET curves == << [name |-> "port chine",
                      points |-> <<Point3D(0, -50, 0), Point3D(1000, -50, 0)>>,
                      mirrored |-> FALSE],
                     [name |-> "starboard chine",
                      points |-> <<Point3D(0, 250, 0), Point3D(1000, 250, 0)>>,
                      mirrored |-> FALSE],
                     [name |-> "starboard gunwale",
                      points |-> <<Point3D(0, 250, 200), Point3D(1000, 250, 200)>>,
                      mirrored |-> FALSE],
                     [name |-> "port gunwale",
                      points |-> <<Point3D(0, -50, 200), Point3D(1000, -50, 200)>>,
                      mirrored |-> FALSE] >>
        box == Bounds(curves)
        profiles == MakeProfiles(curves, Stations(box.min_x, box.max_x))
        whole == IntegrateSlabs(profiles)
    IN  { [name |-> "offset", target_waterline |-> Some(50),
           target_weight |-> 100, target_payload |-> 300,
           curves |-> curves, profiles |-> profiles,
           min_x |-> box.min_x, max_x |-> box.max_x, min_y |-> box.min_y,
           max_y |-> box.max_y, min_z |-> box.min_z, max_z |-> box.max_z,
           volume |-> whole.volume, cg |-> whole.cg,
           waterline |-> Some(89), cb |-> Some(Point3D(500, 100, 45)),
           displacement |-> Some(40050)] }

\* Hull.initialize_from_data(data): every field is taken from the stored
\* data as it is; nothing is recomputed.
InitializeFromData(data) ==
    /\ pc = "new"
    /\ hull' = data
    /\ pc' = "ready"
    /\ error' = ""
    /\ UNCHANGED <<solver, twin, sweep, points, result>>
    /\ UNCHANGED aux

\* A fresh Hull() replaces the one at hand.
NewHull ==
    /\ pc \in {"ready", "failed"}
    /\ hull' = EmptyHull
    /\ pc' = "new"
    /\ solver' = Idle
    /\ sweep' = NoSweep
    /\ points' = <<>>
    /\ result' = None
    /\ error' = ""
    /\ UNCHANGED twin
    /\ UNCHANGED aux

\* create_stability_curve_points, up to the loop: the weights default to the
\* hull's targets, the combined CG is computed, the angles are laid out.
StartSweep(args) ==
    /\ pc = "ready"
    /\ LET hull_weight == PyOr(args.hull_weight, hull.target_weight)
           paddler_weight == PyOr(args.paddler_weight, hull.target_payload)
           total_weight == hull_weight + paddler_weight
           combined_cg == calculate_combined_cg(hull_weight, Val(hull.cg),
                                                paddler_weight, args.paddler_cg_z)
       IN  sweep' = [args |-> Some(args), hull_weight |-> hull_weight,
                     paddler_weight |-> paddler_weight, total_weight |-> total_weight,
                     combined_cg |-> Some(combined_cg),
                     angles |-> arange(args.max_angle + args.step, args.step),
                     i |-> 1]
    /\ points' = <<>>
    /\ result' = None
    /\ error' = ""
    /\ pc' = "sweep_loop"
    /\ UNCHANGED <<hull, solver, twin>>
    /\ UNCHANGED aux

\* A solver call that starts from the waterline solved for the angle before.
SweepSolveFromPrevious ==
    /\ pc = "sweep_loop"
    /\ sweep.i <= Len(sweep.angles)
    /\ solver' = [SolverStart(hull, sweep.total_weight, sweep.angles[sweep.i])
                    EXCEPT !.waterline = IF points = <<>> THEN @
                                         ELSE points[Len(points)].waterline]
    /\ pc' = "sweep_solving"
    /\ UNCHANGED <<hull, twin, sweep, points, result, error>>
    /\ UNCHANGED aux

\* The loop body's call hull._calculate_waterline(total_weight, angle_deg).
SweepSolve ==
    /\ pc = "sweep_loop"
    /\ sweep.i <= Len(sweep.angles)
    /\ solver' = SolverStart(hull, sweep.total_weight, sweep.angles[sweep.i])
    /\ pc' = "sweep_solving"
    /\ UNCHANGED <<hull, twin, sweep, points, result, error>>
    /\ UNCHANGED aux

\* A loop body that keeps the solved waterline and centre of buoyancy in the
\* hull.
SweepAppendKeepsWaterline ==
    /\ pc = "sweep_solving"
    /\ solver.status \notin {"running", "idle"}
    /\ IF solver.status = "converged"
       THEN LET point == StabilityPoint(hull, Val(sweep.combined_cg), sweep.total_weight,
                                        sweep.angles[sweep.i], solver)
            IN  /\ points' = Append(points, point)
                /\ sweep' = [sweep EXCEPT !.i =
                                IF Val(sweep.args).break_on_vanishing /\ point.gz < 0
                                      /\ point.angle > 0
                                THEN Len(sweep.angles) + 1
                                ELSE sweep.i + 1]
                /\ hull' = [hull EXCEPT !.waterline = Some(solver.waterline),
                                        !.cb = solver.cb]
                /\ pc' = "sweep_loop"
                /\ error' = ""
       ELSE /\ points' = points
            /\ sweep' = sweep
            /\ hull' = hull
            /\ pc' = "ready"
            /\ error' = Raised(solver)
    /\ solver' = Idle
    /\ UNCHANGED <<twin, result>>
    /\ UNCHANGED aux

\* A loop body that leaves the loop on any negative GZ, the one at angle 0
\* included.
SweepAppendStopsAtZero ==
    /\ pc = "sweep_solving"
    /\ solver.status \notin {"running", "idle"}
    /\ IF solver.status = "converged"
       THEN LET point == StabilityPoint(hull, Val(sweep.combined_cg), sweep.total_weight,
                                        sweep.angles[sweep.i], solver)
            IN  /\ points' = Append(points, point)
                /\ sweep' = [sweep EXCEPT !.i =
                                IF Val(sweep.args).break_on_vanishing /\ point.gz < 0
                                THEN Len(sweep.angles) + 1
                                ELSE sweep.i + 1]
                /\ pc' = "sweep_loop"
                /\ error' = ""
       ELSE /\ points' = points
            /\ sweep' = sweep
            /\ pc' = "ready"
            /\ error' = Raised(solver)
    /\ solver' = Idle
    /\ UNCHANGED <<hull, twin, result>>
    /\ UNCHANGED aux

\* The rest of the loop body: the point is appended, and the loop is left
\* early when break_on_vanishing is set and GZ is negative past angle 0.  A
\* solver failure leaves the function with the exception.
SweepAppend ==
    /\ pc = "sweep_solving"
    /\ solver.status \notin {"running", "idle"}
    /\ IF solver.status = "converged"
       THEN LET point == StabilityPoint(hull, Val(sweep.combined_cg), sweep.total_weight,
                                        sweep.angles[sweep.i], solver)
            IN  /\ points' = Append(points, point)
                /\ sweep' = [sweep EXCEPT !.i =
                                IF Val(sweep.args).break_on_vanishing /\ point.gz < 0
                                      /\ point.angle > 0
                                THEN Len(sweep.angles) + 1
                                ELSE sweep.i + 1]
                /\ pc' = "sweep_loop"
                /\ error' = ""
       ELSE /\ points' = points
            /\ sweep' = sweep
            /\ pc' = "ready"
            /\ error' = Raised(solver)
    /\ solver' = Idle
    /\ UNCHANGED <<hull, twin, result>>
    /\ UNCHANGED aux

\* After the loop: the scan for the vanishing angle and the largest moment,
\* and the return of the result.
SweepFinish ==
    /\ pc = "sweep_loop"
    /\ sweep.i > Len(sweep.angles)
    /\ LET found == ScanPoints(points)
       IN  result' = Some([vanishing_angle |-> found.vanishing_angle,
                           max_moment |-> found.max_moment,
                           max_moment_angle |-> found.max_moment_angle,
                           stability_points |-> points])
    /\ pc' = "ready"
    /\ UNCHANGED <<hull, solver, twin, sweep, points, error>>
    /\ UNCHANGED aux

Next ==
    \/ \E data \in BuildData : BuildStart(data)
    \/ SolverIterate
    \/ BuildFinish
    \/ \E data \in StoredData : InitializeFromData(data)
    \/ NewHull
    \/ \E args \in SweepArgs : StartSweep(args)
    \/ SweepSolve
    \/ SweepAppend
    \/ SweepFinish

Spec == Init /\ [][Next]_vars


\* ------------------------------------------ two solves on the same hull

\* The masses (tenths of a kilogram) and heel angles of the paired solves.
CompareMasses == {327, 332, 350, 375}

CompareAngles == {0, 30, 60}

\* Two calls of Hull._calculate_waterline on the hull at hand at one heel
\* angle, the second for a mass not below the first's.
StartCompare(angle, m1, m2) ==
    /\ pc = "ready"
    /\ m1 <= m2
    /\ solver' = SolverStart(hull, m1, angle)
    /\ twin' = SolverStart(hull, m2, angle)
    /\ pc' = "compare"
    /\ UNCHANGED <<hull, sweep, points, result, error>>
    /\ UNCHANGED aux

\* One pass of the second call's loop, made once the first call has ended.
TwinIterate ==
    /\ pc = "compare"
    /\ solver.status # "running"
    /\ twin.status = "running"
    /\ twin' = SolverStep(hull, twin)
    /\ UNCHANGED <<hull, pc, solver, sweep, points, result, error>>
    /\ UNCHANGED aux

CompareNext ==
    \/ \E data \in BuildData : BuildStart(data)
    \/ SolverIterate
    \/ BuildFinish
    \/ \E data \in StoredData : InitializeFromData(data)
    \/ \E angle \in CompareAngles, m1 \in CompareMasses, m2 \in CompareMasses :
          StartCompare(angle, m1, m2)
    \/ TwinIterate

CompareSpec == Init /\ [][CompareNext]_vars

\* ---------------------------------------------------- profiles on their own

\* The point lists offered to Profile(station, points), as (y, z): none, one
\* and two points, three points on a line, a triangle, a square and a vee;
\* a point given twice, and a square given corner by opposite corner.
SectionShapes ==
    { <<>>,
      << <<0, 500>>, <<0, 500>>, <<500, 300>> >>,
      << <<-100, 0>>, <<100, 200>>, <<100, 0>>, <<-100, 200>> >>,
      << <<0, 0>> >>,
      << <<0, 0>>, <<200, 0>> >>,
      << <<-200, 100>>, <<0, 100>>, <<200, 100>> >>,
      << <<-100, 0>>, <<100, 0>>, <<0, 200>> >>,
      << <<-100, 0>>, <<100, 0>>, <<100, 200>>, <<-100, 200>> >>,
      << <<-150, 300>>, <<0, 0>>, <<150, 300>> >> }

SectionStations == {0, 500}

SectionWaterlines == {-100, 0, 50, 100, 200, 300}

\* Profile(station, points), the points given at x = at: _validate_points
\* refuses points off the station.
MakeSection(station, at, shape) ==
    /\ IF shape # <<>> /\ at # station
       THEN /\ section' = section
            /\ ret' = [op |-> "Profile", arg |-> None, raised |-> "ValueError",
                       value |-> None]
       ELSE /\ section' = Some([station |-> station,
                                points |-> [i \in DOMAIN shape |->
                                              Point3D(at, shape[i][1], shape[i][2])]])
            /\ ret' = [op |-> "Profile", arg |-> None, raised |-> "", value |-> None]
    /\ UNCHANGED <<core, store, held, kayak, curve>>

\* section.calculate_area_below_waterline(waterline_z)
AreaBelowWaterline(waterline_z) ==
    /\ section # None
    /\ LET out == calculate_area_below_waterline(Val(section), waterline_z)
       IN  ret' = [op |-> "calculate_area_below_waterline", arg |-> Some(waterline_z),
                   raised |-> out.raised, value |-> out.value]
    /\ UNCHANGED <<core, store, held, kayak, curve, section>>

\* section._get_submerged_polygon(waterline_z)
SubmergedPolygon(waterline_z) ==
    /\ section # None
    /\ \E out \in { get_submerged_polygon(Val(section), waterline_z) } :
          ret' = [op |-> "_get_submerged_polygon", arg |-> Some(waterline_z),
                  raised |-> IF out = None THEN "IndexError" ELSE "",
                  value |-> out]
    /\ UNCHANGED <<core, store, held, kayak, curve, section>>

SectionNext ==
    \/ \E station \in SectionStations, at \in SectionStations, shape \in SectionShapes :
          MakeSection(station, at, shape)
    \/ \E waterline_z \in SectionWaterlines : AreaBelowWaterline(waterline_z)
    \/ \E waterline_z \in SectionWaterlines : SubmergedPolygon(waterline_z)

SectionSpec == Init /\ [][SectionNext]_vars

\* --------------------------------------------------- a KayakHull on its own

KayakStations == {0, 50, 100}

\* The profiles offered to a KayakHull, as (y, z): a vee and a box.
KayakShapes ==
    { << <<-10, 20>>, <<0, 0>>, <<10, 20>> >>,
      << <<-10, 0>>, <<10, 0>>, <<10, 20>>, <<-10, 20>> >> }

KayakProfiles ==
    { [station |-> station,
       points |-> [i \in DOMAIN shape |-> Point3D(station, shape[i][1], shape[i][2])]] :
      station \in KayakStations, shape \in KayakShapes }

\* The waterline lists handed to calculate_cb_curve.
KayakWaterlines == { <<-5>>, <<10>>, <<-5, 10>>, <<10, 30>> }

\* A KayakHull with no profile yet.
MakeKayak ==
    /\ kayak = None
    /\ kayak' = Some(KayakHull)
    /\ ret' = [op |-> "KayakHull", arg |-> None, raised |-> "", value |-> None]
    /\ UNCHANGED <<core, store, held, curve, section>>

\* kayak.add_profile(profile)
AddProfile(profile) ==
    /\ kayak # None
    /\ IF profile.station \in DOMAIN Val(kayak).profiles
       THEN /\ kayak' = kayak
            /\ ret' = [op |-> "add_profile", arg |-> Some(profile),
                       raised |-> "ValueError", value |-> None]
       ELSE /\ kayak' = Some([profiles |-> DictSet(Val(kayak).profiles, profile.station,
                                                   profile),
                              sorted_stations |-> None])
            /\ ret' = [op |-> "add_profile", arg |-> Some(profile), raised |-> "",
                       value |-> None]
    /\ UNCHANGED <<core, store, held, curve, section>>

\* An update_profile that leaves the cached stations as they are.
UpdateProfileKeepsCache(profile) ==
    /\ kayak # None
    /\ kayak' = Some([Val(kayak) EXCEPT
                        !.profiles = DictSet(Val(kayak).profiles, profile.station, profile)])
    /\ ret' = [op |-> "update_profile", arg |-> Some(profile), raised |-> "",
               value |-> None]
    /\ UNCHANGED <<core, store, held, curve, section>>

\* kayak.update_profile(profile)
UpdateProfile(profile) ==
    /\ kayak # None
    /\ kayak' = Some([profiles |-> DictSet(Val(kayak).profiles, profile.station, profile),
                      sorted_stations |-> None])
    /\ ret' = [op |-> "update_profile", arg |-> Some(profile), raised |-> "",
               value |-> None]
    /\ UNCHANGED <<core, store, held, curve, section>>

\* kayak.remove_profile(station)
RemoveProfile(station) ==
    /\ kayak # None
    /\ IF station \notin DOMAIN Val(kayak).profiles
       THEN /\ kayak' = kayak
            /\ ret' = [op |-> "remove_profile", arg |-> Some(station),
                       raised |-> "KeyError", value |-> None]
       ELSE /\ kayak' = Some([profiles |-> DictDel(Val(kayak).profiles, station),
                              sorted_stations |-> None])
            /\ ret' = [op |-> "remove_profile", arg |-> Some(station), raised |-> "",
                       value |-> None]
    /\ UNCHANGED <<core, store, held, curve, section>>

\* kayak.get_stations(): the cached list, computed first when there is none.
GetStations ==
    /\ kayak # None
    /\ LET cached == IF Val(kayak).sorted_stations = None
                     THEN sorted(DOMAIN Val(kayak).profiles)
                     ELSE Val(Val(kayak).sorted_stations)
       IN  /\ kayak' = Some([Val(kayak) EXCEPT !.sorted_stations = Some(cached)])
           /\ ret' = [op |-> "get_stations", arg |-> None, raised |-> "",
                      value |-> Some(cached)]
    /\ UNCHANGED <<core, store, held, curve, section>>

\* calculate_cb_curve(kayak, waterlines): the calls of get_stations it makes
\* leave the stations cached.
CbCurve(waterlines) ==
    /\ kayak # None
    /\ \E out \in { calculate_cb_curve(Val(kayak), waterlines) } :
          ret' = [op |-> "calculate_cb_curve", arg |-> Some(waterlines),
                  raised |-> out.raised, value |-> out.value]
    /\ LET cached == IF Val(kayak).sorted_stations = None
                     THEN sorted(DOMAIN Val(kayak).profiles)
                     ELSE Val(Val(kayak).sorted_stations)
       IN  kayak' = Some([Val(kayak) EXCEPT !.sorted_stations = Some(cached)])
    /\ UNCHANGED <<core, store, held, curve, section>>

KayakNext ==
    \/ MakeKayak
    \/ \E profile \in KayakProfiles : AddProfile(profile)
    \/ \E profile \in KayakProfiles : UpdateProfile(profile)
    \/ \E station \in KayakStations : RemoveProfile(station)
    \/ GetStations
    \/ \E waterlines \in KayakWaterlines : CbCurve(waterlines)

KayakSpec == Init /\ [][KayakNext]_vars

\* ------------------------------------------------------ curves on their own

\* The control points offered to Curve(): x rising, x falling, x doubling
\* back, a repeated control point, and a curve that stays at one x.
CurvePoints ==
    { <<Point3D(0, 0, 0), Point3D(500, 100, 100), Point3D(1000, 0, 200)>>,
      <<Point3D(1000, 0, 0), Point3D(500, 100, 100), Point3D(0, 0, 200)>>,
      <<Point3D(0, 0, 0), Point3D(1000, 100, 0), Point3D(500, 100, 100)>>,
      <<Point3D(0, 0, 0), Point3D(0, 0, 0), Point3D(500, 100, 100)>>,
      <<Point3D(0, 0, 0), Point3D(0, 300, 400)>> }

Parametrizations == {"auto", "x", "chord"}

\* The x handed to eval_x, the origins and the angles handed to the rotation.
EvalXs == {-100, 0, 250, 500, 750, 1000, 1100}

Origins == {Point3D(0, 0, 0), Point3D(0, 100, 50), Point3D(500, -200, 300)}

Angles == {-90, -45, -15, 15, 30, 60, 90, 180}

\* Curve(name, points, parametrization=..., mirrored=...).  build hands the
\* breakpoints to scipy: CubicSpline refuses breakpoints that are not
\* strictly increasing with a ValueError; PchipInterpolator does the same in
\* the releases that validate their input and takes them as they are in the
\* others (validates says which release is installed).
Construct(control, parametrization, mirrored, validates) ==
    /\ LET made == Curve("keel", control, parametrization, mirrored)
           refused == /\ ~StrictlyIncreasing(made.t)
                      /\ (made.parametrization = "chord" \/ validates)
       IN  IF refused
           THEN /\ curve' = curve
                /\ ret' = [op |-> "Curve", arg |-> None, raised |-> "ValueError",
                           value |-> None]
           ELSE /\ curve' = Some(made)
                /\ ret' = [op |-> "Curve", arg |-> None, raised |-> "", value |-> None]
    /\ UNCHANGED <<core, store, held, kayak, section>>

\* curve.eval_x(x_obj)
EvalX(x_obj) ==
    /\ curve # None
    /\ \E out \in Spline3D_eval_x(Val(curve), x_obj) :
          ret' = [op |-> "eval_x", arg |-> Some(x_obj),
                  raised |-> IF out = None THEN "ValueError" ELSE "", value |-> out]
    /\ UNCHANGED <<core, store, held, kayak, curve, section>>

\* A rotation that turns the control points of the curve itself.
RotateInPlace(origin, angle_degrees) ==
    /\ curve # None
    /\ LET rotated == apply_rotation_on_x_axis(Val(curve), origin, angle_degrees)
       IN  /\ curve' = Some([Val(curve) EXCEPT !.points = rotated.points])
           /\ ret' = [op |-> "apply_rotation_on_x_axis",
                      arg |-> Some([origin |-> origin, angle_degrees |-> angle_degrees]),
                      raised |-> "", value |-> curve']
    /\ UNCHANGED <<core, store, held, kayak, section>>

\* curve.apply_rotation_on_x_axis(origin, angle_degrees): the rotated control
\* points go to Spline3D's constructor with the receiver's name and settled
\* parametrization; the receiver is left as it is.
Rotate(origin, angle_degrees) ==
    /\ curve # None
    /\ LET rotated == apply_rotation_on_x_axis(Val(curve), origin, angle_degrees)
       IN  ret' = [op |-> "apply_rotation_on_x_axis",
                   arg |-> Some([origin |-> origin, angle_degrees |-> angle_degrees]),
                   raised |-> "",
                   value |-> Some(Spline3D(rotated.name, rotated.points,
                                           Val(curve).parametrization))]
    /\ UNCHANGED <<core, store, held, kayak, curve, section>>

\* The rotated spline is rotated about the same origin by the opposite angle.
RotateBack ==
    /\ ret.op = "apply_rotation_on_x_axis"
    /\ LET once == Val(ret.value)
           origin == Val(ret.arg).origin
           angle_degrees == Val(ret.arg).angle_degrees
           rotated == apply_rotation_on_x_axis(once, origin, -angle_degrees)
       IN  ret' = [op |-> "rotated_back", arg |-> ret.arg, raised |-> "",
                   value |-> Some(Spline3D(rotated.name, rotated.points,
                                           once.parametrization))]
    /\ UNCHANGED <<core, store, held, kayak, curve, section>>

\* p.rotate_x(angle_degrees) on a control point p of the curve.
RotateX(i, angle_degrees) ==
    /\ curve # None
    /\ i \in DOMAIN Val(curve).points
    /\ ret' = [op |-> "rotate_x",
               arg |-> Some([point |-> Val(curve).points[i],
                             angle_degrees |-> angle_degrees]),
               raised |-> "",
               value |-> Some(rotate_x(Val(curve).points[i], angle_degrees))]
    /\ UNCHANGED <<core, store, held, kayak, curve, section>>

CurveNext ==
    \/ \E control \in CurvePoints, parametrization \in Parametrizations,
          mirrored \in BOOLEAN, validates \in BOOLEAN :
          Construct(control, parametrization, mirrored, validates)
    \/ \E x_obj \in EvalXs : EvalX(x_obj)
    \/ \E origin \in Origins, angle_degrees \in Angles : Rotate(origin, angle_degrees)
    \/ RotateBack
    \/ \E i \in 1..3, angle_degrees \in Angles : RotateX(i, angle_degrees)

CurveSpec == Init /\ [][CurveNext]_vars

\* ------------------------------------------------- two hulls side by side

\* The builds and sweeps offered while another hull is kept.
OwnBuildData ==
    { d \in BuildData : d.name \in {"wide", "stub", "flat"} /\ d.target_payload = 300 }

OwnSweepArgs ==
    { a \in SweepArgs : /\ a.paddler_cg_z = 250
                        /\ a.paddler_weight = None
                        /\ a.hull_weight = None
                        /\ a.max_angle = 60
                        /\ a.step = 30 }

\* A Hull() whose lists are the ones of the hull made before it.
SecondHullSharesLists ==
    /\ pc \in {"ready", "failed"}
    /\ held' = Some(hull)
    /\ hull' = [EmptyHull EXCEPT !.curves = hull.curves, !.profiles = hull.profiles]
    /\ pc' = "new"
    /\ solver' = Idle
    /\ sweep' = NoSweep
    /\ points' = <<>>
    /\ result' = None
    /\ error' = ""
    /\ UNCHANGED <<twin, kayak, curve, section, ret, store>>

\* The caller keeps the hull at hand and constructs another Hull(), which
\* becomes the hull at hand.
SecondHull ==
    /\ pc \in {"ready", "failed"}
    /\ held' = Some(hull)
    /\ hull' = EmptyHull
    /\ pc' = "new"
    /\ solver' = Idle
    /\ sweep' = NoSweep
    /\ points' = <<>>
    /\ result' = None
    /\ error' = ""
    /\ UNCHANGED <<twin, kayak, curve, section, ret, store>>

OwnershipNext ==
    \/ \E data \in OwnBuildData : BuildStart(data)
    \/ SolverIterate
    \/ BuildFinish
    \/ \E data \in StoredData : InitializeFromData(data)
    \/ SecondHull
    \/ \E args \in OwnSweepArgs : StartSweep(args)
    \/ SweepSolve
    \/ SweepAppend
    \/ SweepFinish

OwnershipSpec == Init /\ [][OwnershipNext]_vars

\* ------------------------------------------------ sampling at a station

\* The curves a hull can hold: the control points of CurvePoints under the
\* default parametrization, those the constructor completes on.
SampleCurves ==
    { c \in { Curve("curve", control, "auto", FALSE) : control \in CurvePoints } :
        c.parametrization = "x" \/ StrictlyIncreasing(c.t) }

\* The lists of up to MaxCurves of them.
MaxCurves == 2

SampleHulls ==
    UNION { [1..n -> SampleCurves] : n \in 0..MaxCurves }

\* The sampling loop run on a hull's curves at station x.
SamplePoints(curves, x) ==
    /\ \E value \in sample_points(curves, x) :
          ret' = [op |-> "sample", arg |-> Some([curves |-> curves, x |-> x]),
                  raised |-> "", value |-> Some(value)]
    /\ UNCHANGED <<core, store, held, kayak, curve, section>>

SampleNext == \E curves \in SampleHulls, x \in EvalXs : SamplePoints(curves, x)

SampleSpec == Init /\ [][SampleNext]_vars

\* ------------------------------------------------- the routes of the hulls

\* The answer of a route: the HTTP status of a rejection, "" when the request
\* was served.
Answer(op, hull_name, hull_model, status) ==
    [op |-> op,
     arg |-> Some([hull_name |-> hull_name, hull_model |-> hull_model]),
     raised |-> status, value |-> None]

\* Path.rename(target) on a store: the file leaves its old name and is found
\* under the new one.
Renamed(fs, old, new) == [[fs EXCEPT ![old] = None] EXCEPT ![new] = fs[old]]

\* create_hull(hull_model): 409 when the file of the sanitized name exists,
\* 400 when build raises a waterline error, else the built hull is written.
CreateHull(hull_model) ==
    LET safe_filename == sanitize_filename(hull_model.name)
        out == BuildOf(hull_model)
    IN  /\ IF files[safe_filename] # None
           THEN /\ files' = files
                /\ ret' = Answer("create_hull", hull_model.name, Some(hull_model), "HTTP 409")
           ELSE IF out.raised # ""
           THEN /\ files' = files
                /\ ret' = Answer("create_hull", hull_model.name, Some(hull_model), "HTTP 400")
           ELSE /\ files' = [files EXCEPT ![safe_filename] = Some(out.hull)]
                /\ ret' = Answer("create_hull", hull_model.name, Some(hull_model), "")
        /\ UNCHANGED <<core, reqs, built, held, kayak, curve, section>>

\* update_hull(hull_name, hull_model).  Under a new name the stored file is
\* renamed first (404 when it is missing); Path.rename replaces an existing
\* target silently on POSIX and raises FileExistsError on Windows.  Under the
\* same name the file must exist (404).  Then the hull is built (400 on a
\* waterline error) and written to the file of the model's name.
UpdateHull(hull_name, hull_model, replaces) ==
    LET old_file == sanitize_filename(hull_name)
        new_file == sanitize_filename(hull_model.name)
        out == BuildOf(hull_model)
        after_rename == IF hull_name # hull_model.name
                        THEN Renamed(files, old_file, new_file)
                        ELSE files
    IN  /\ IF files[old_file] = None
           THEN /\ files' = files
                /\ ret' = Answer("update_hull", hull_name, Some(hull_model), "HTTP 404")
           ELSE IF /\ hull_name # hull_model.name
                   /\ new_file # old_file
                   /\ files[new_file] # None
                   /\ ~replaces
           THEN /\ files' = files
                /\ ret' = Answer("update_hull", hull_name, Some(hull_model), "FileExistsError")
           ELSE IF out.raised # ""
           THEN /\ files' = after_rename
                /\ ret' = Answer("update_hull", hull_name, Some(hull_model), "HTTP 400")
           ELSE /\ files' = [after_rename EXCEPT ![new_file] = Some(out.hull)]
                /\ ret' = Answer("update_hull", hull_name, Some(hull_model), "")
        /\ UNCHANGED <<core, reqs, built, held, kayak, curve, section>>

\* delete_hull(hull_name): the file is unlinked, 404 when there is none.
DeleteHull(hull_name) ==
    LET file_path == sanitize_filename(hull_name)
    IN  /\ IF files[file_path] = None
           THEN /\ files' = files
                /\ ret' = Answer("delete_hull", hull_name, None, "HTTP 404")
           ELSE /\ files' = [files EXCEPT ![file_path] = None]
                /\ ret' = Answer("delete_hull", hull_name, None, "")
        /\ UNCHANGED <<core, reqs, built, held, kayak, curve, section>>

StoreNext ==
    \/ \E hull_model \in HullModels : CreateHull(hull_model)
    \/ \E hull_name \in HullNames, hull_model \in HullModels, replaces \in BOOLEAN :
          UpdateHull(hull_name, hull_model, replaces)
    \/ \E hull_name \in HullNames : DeleteHull(hull_name)

StoreSpec == RoutesInit /\ [][StoreNext]_vars

\* ------------------------------------ create requests at the same time

\* create_hull is a plain function endpoint: requests run side by side in the
\* server's threads, and nothing is locked between the test that the file is
\* missing and the write of the file.  A request takes three steps.

\* The request arrives and finds the file of its name stored (409) or not.
CreateCheck(c, hull_model) ==
    /\ reqs[c].pc = "idle"
    /\ reqs' = [reqs EXCEPT ![c] =
                  IF files[sanitize_filename(hull_model.name)] # None
                  THEN [pc |-> "done", model |-> Some(hull_model), status |-> 409]
                  ELSE [pc |-> "checked", model |-> Some(hull_model), status |-> 0]]
    /\ UNCHANGED <<core, files, built, held, kayak, curve, section, ret>>

\* The hull is built: 400 on a waterline error.
CreateBuild(c) ==
    /\ reqs[c].pc = "checked"
    /\ reqs' = [reqs EXCEPT ![c] =
                  IF BuildOf(Val(reqs[c].model)).raised # ""
                  THEN [@ EXCEPT !.pc = "done", !.status = 400]
                  ELSE [@ EXCEPT !.pc = "built"]]
    /\ UNCHANGED <<core, files, built, held, kayak, curve, section, ret>>

\* The built hull is written to the file and returned.
CreateWrite(c) ==
    /\ reqs[c].pc = "built"
    /\ files' = [files EXCEPT ![sanitize_filename(Val(reqs[c].model).name)] =
                   Some(BuildOf(Val(reqs[c].model)).hull)]
    /\ reqs' = [reqs EXCEPT ![c] = [@ EXCEPT !.pc = "done", !.status = 200]]
    /\ UNCHANGED <<core, built, held, kayak, curve, section, ret>>

RaceNext ==
    \/ \E c \in Clients, hull_model \in HullModels : CreateCheck(c, hull_model)
    \/ \E c \in Clients : CreateBuild(c)
    \/ \E c \in Clients : CreateWrite(c)

RaceSpec == RoutesInit /\ [][RaceNext]_vars

\* ------------------------------------------------------------ the claims

Finished == {"converged", "nonconvergent", "out_of_bounds"}

\* The hull's maximum possible displacement, in grams: its full-depth volume
\* times the density of water.
MaxDisplacement == hull.volume

\* C1, as stated: a solve for a mass above the hull's maximum possible
\* displacement never returns a waterline, and no build for such a design
\* mass leaves a hull with a waterline.
OverCapacityNeverSolves ==
    /\ solver.status = "converged" => Grams(solver.weight) <= MaxDisplacement
    /\ (pc = "ready" /\ hull.waterline # None)
          => Grams(hull.target_weight + hull.target_payload) <= MaxDisplacement

\* C1, amended: a solve for a mass that exceeds the hull's maximum possible
\* displacement by more than the convergence tolerance never returns a
\* waterline, and no build for such a design mass leaves a hull with one.
OverCapacityBeyondToleranceNeverSolves ==
    /\ solver.status = "converged"
          => Grams(solver.weight) <= MaxDisplacement + Tolerance
    /\ (pc = "ready" /\ hull.waterline # None)
          => Grams(hull.target_weight + hull.target_payload) <= MaxDisplacement + Tolerance

\* C1 witness: a solve for a mass beyond capacity and tolerance has ended in
\* a waterline failure.
OverCapacitySolveFailed ==
    /\ solver.status \in {"nonconvergent", "out_of_bounds"}
    /\ Grams(solver.weight) > MaxDisplacement + Tolerance

\* C2: the solver's loop never passes its iteration bound, and every pass of
\* a running solve either ends it (converged, nonconvergent or out of
\* bounds) or counts one more iteration: no solve takes more than
\* MaxIterations + 1 passes.
SolverEnds ==
    /\ [](solver.iteration <= MaxIterations)
    /\ [][solver.status = "running"
             => \/ solver'.status \in Finished
                \/ /\ solver'.status = "running"
                   /\ solver'.iteration = solver.iteration + 1]_vars

\* C2 witness: a solve has used up the iteration bound and ended as
\* nonconvergent.
SolverGaveUp ==
    /\ solver.status = "nonconvergent"
    /\ solver.iteration = MaxIterations

\* C3: whenever the solver returns, the displacement it returns is within the
\* tolerance of the requested mass; so is the displacement of every stability
\* point, and the displacement a build stores.
ReturnedDisplacementWithinTolerance ==
    /\ solver.status = "converged"
          => Abs(Val(solver.displacement) - Grams(solver.weight)) <= Tolerance
    /\ \A k \in DOMAIN points :
          Abs(points[k].displacement - Grams(sweep.total_weight)) <= Tolerance
    /\ (pc = "ready" /\ hull.displacement # None)
          => Abs(Val(hull.displacement) - Grams(hull.target_weight + hull.target_payload))
                <= Tolerance

\* C3 witness: the solver has returned after correcting the waterline, with
\* a displacement that is not the requested mass itself.
SolverReturnedNearTarget ==
    /\ solver.status = "converged"
    /\ solver.iteration >= 2
    /\ Val(solver.displacement) # Grams(solver.weight)

\* The returned stability points, and the places where GZ changes from
\* non-negative to negative between consecutive points.
Returned == Val(result).stability_points

SignChanges ==
    {k \in 2..Len(Returned) : Returned[k].gz < 0 /\ Returned[k - 1].gz >= 0}

FirstSignChange == CHOOSE k \in SignChanges : \A j \in SignChanges : k <= j

\* C4: when the returned GZ values change from non-negative to negative, the
\* vanishing angle lies between the two samples of the first such change, at
\* the zero of the straight line through them (to the nearest thousandth of
\* a degree).
VanishingAngleInterpolatesFirstSignChange ==
    (result # None /\ SignChanges # {})
       => /\ Val(result).vanishing_angle # None
          /\ LET p1 == Returned[FirstSignChange - 1]
                 p2 == Returned[FirstSignChange]
                 v == Val(Val(result).vanishing_angle)
             IN  /\ 1000 * p1.angle <= v
                 /\ v <= 1000 * p2.angle
                 /\ 2 * Abs(p1.gz * (p2.angle - p1.angle) * 1000
                              - (p1.gz - p2.gz) * (v - 1000 * p1.angle))
                       <= p1.gz - p2.gz

\* C4 witness: a sweep has returned whose GZ rose above zero and then fell
\* below it, later than the second point.
SweepCrossedZero ==
    /\ result # None
    /\ SignChanges # {}
    /\ FirstSignChange >= 3
    /\ Returned[FirstSignChange - 1].gz > 0

\* C5, as stated: the reported max_moment is the largest righting moment
\* among all the points of the sweep, and max_moment_angle is the angle of a
\* point that has it.
MaxMomentIsLargestOfSweep ==
    result # None
       => /\ \A k \in DOMAIN Returned : Returned[k].moment <= Val(result).max_moment
          /\ \E k \in DOMAIN Returned :
                /\ Returned[k].moment = Val(result).max_moment
                /\ Returned[k].angle = Val(result).max_moment_angle

\* C6, as stated: the vanishing angle is absent exactly when GZ never changes
\* from non-negative to negative, and when it is absent GZ is not negative
\* at any angle of the sweep.
AbsentVanishingMeansPositiveStability ==
    result # None
       => /\ (Val(result).vanishing_angle = None) <=> (SignChanges = {})
          /\ (Val(result).vanishing_angle = None)
                => \A k \in DOMAIN Returned : Returned[k].gz >= 0

\* C7, as stated: without early stop the returned points start at angle 0,
\* go up by exactly the step, and none is beyond max_angle.
AnglesStepUpToMaxAngle ==
    (result # None /\ ~Val(sweep.args).break_on_vanishing)
       => /\ Len(Returned) >= 1
          /\ Returned[1].angle = 0
          /\ \A k \in 2..Len(Returned) :
                Returned[k].angle = Returned[k - 1].angle + Val(sweep.args).step
          /\ \A k \in DOMAIN Returned : Returned[k].angle <= Val(sweep.args).max_angle

\* The mass a sweep is asked for: the weights given to it, the hull's own
\* targets only where none is given.
GivenOr(value, default) == IF value # None THEN Val(value) ELSE default

RequestedMass ==
    GivenOr(Val(sweep.args).hull_weight, hull.target_weight)
       + GivenOr(Val(sweep.args).paddler_weight, hull.target_payload)

\* C8, as stated: every stability point's moment is total mass x gravity x
\* GZ of that point, the total mass being the hull mass plus the payload
\* mass given to the sweep, and the solver is called with that same mass.
MomentIsRequestedMassTimesArm ==
    /\ \A k \in DOMAIN points : points[k].moment = RequestedMass * GRAVITY * points[k].gz
    /\ pc = "sweep_solving" => solver.weight = RequestedMass

\* C9: no step of a stability sweep changes the Hull.
SweepLeavesHullAlone ==
    [][(pc \in {"sweep_loop", "sweep_solving"} \/ pc' \in {"sweep_loop", "sweep_solving"})
          => hull' = hull]_vars

\* C9 witness: a sweep of at least three solved angles has returned.
SweepReturned ==
    /\ pc = "ready"
    /\ result # None
    /\ Len(Returned) >= 3


SpanOf(c) ==
    [low |-> SeqMin([i \in DOMAIN c.points |-> c.points[i].x]),
     high |-> SeqMax([i \in DOMAIN c.points |-> c.points[i].x])]

EndsOf(c) ==
    [low |-> Min2(c.points[1].x, c.points[Len(c.points)].x),
     high |-> Max2(c.points[1].x, c.points[Len(c.points)].x)]

\* C14, as stated: eval_x at an x outside the curve's longitudinal span
\* raises the ValueError and returns no point, and at an x inside the span it
\* returns a point with that x, under either parametrization.
EvalXAnswersInsideTheSpan ==
    ret.op = "eval_x" =>
        LET x_obj == Val(ret.arg)
            span == SpanOf(Val(curve))
        IN  IF x_obj < span.low \/ x_obj > span.high
            THEN ret.raised = "ValueError" /\ ret.value = None
            ELSE ret.raised = "" /\ ret.value # None /\ Val(ret.value).x = x_obj

\* C14, amended: eval_x at an x outside the range between the x of the
\* curve's first and last control points raises the ValueError and returns
\* no point (so it does outside the longitudinal span, which contains that
\* range), and at an x inside that range it returns a point with that x,
\* under either parametrization.
EvalXAnswersBetweenTheEnds ==
    ret.op = "eval_x" =>
        LET x_obj == Val(ret.arg)
            span == SpanOf(Val(curve))
            ends == EndsOf(Val(curve))
        IN  /\ span.low <= ends.low /\ ends.high <= span.high
            /\ IF x_obj < ends.low \/ x_obj > ends.high
               THEN ret.raised = "ValueError" /\ ret.value = None
               ELSE ret.raised = "" /\ ret.value # None /\ Val(ret.value).x = x_obj

\* eval_x on a chord-parametrized curve raised for an x beyond the curve.
EvalXRaisedOnChordCurve ==
    /\ ret.op = "eval_x"
    /\ ret.raised = "ValueError"
    /\ Val(curve).parametrization = "chord"
    /\ Val(ret.arg) > SpanOf(Val(curve)).high

\* C15: every constructed curve has strictly increasing parametrization
\* breakpoints, whether its x rises or falls and whether it is parametrized
\* by x or by chord length.
BreakpointsStrictlyIncreasing ==
    curve # None => StrictlyIncreasing(Val(curve).t)

\* C16, as stated: the rotation returns a Curve (an object with the mirrored
\* flag) and leaves the control points, name and mirrored flag of the curve
\* it was called on as they were.
RotationReturnsCurveAndLeavesOriginal ==
    [][ret'.op = "apply_rotation_on_x_axis" =>
          /\ curve' = curve
          /\ "mirrored" \in DOMAIN Val(ret'.value)]_vars

\* C16, amended: the rotation returns a Spline3D with the name of the curve
\* it was called on and no mirrored flag, and leaves the control points, name
\* and mirrored flag of that curve as they were.
RotationReturnsSplineAndLeavesOriginal ==
    [][ret'.op = "apply_rotation_on_x_axis" =>
          /\ curve' = curve
          /\ Val(ret'.value).name = Val(curve).name
          /\ DOMAIN Val(ret'.value) = {"name", "points", "parametrization", "t"}]_vars

\* A mirrored curve was rotated to other control points and still is what it
\* was.
RotatedMirroredCurve ==
    /\ ret.op = "apply_rotation_on_x_axis"
    /\ Val(curve).mirrored
    /\ Val(ret.value).points # Val(curve).points

\* The fixed-point image of the floating tolerance of the round trip: each
\* of the two rotations rounds to the nearest millimetre, so the coordinates
\* come back at most one millimetre off.
RotationTolerance == 1

\* C17: rotating a curve about an origin by an angle and the result about
\* the same origin by the opposite angle gives back the control points,
\* within tolerance.
RoundTripRestoresControlPoints ==
    ret.op = "rotated_back" =>
        LET before == Val(curve).points
            after == Val(ret.value).points
        IN  /\ Len(after) = Len(before)
            /\ \A i \in DOMAIN before :
                  /\ after[i].x = before[i].x
                  /\ Abs(after[i].y - before[i].y) <= RotationTolerance
                  /\ Abs(after[i].z - before[i].z) <= RotationTolerance

\* A curve went through a round trip of 60 degrees about an origin off the
\* axis.
RoundTripMade ==
    /\ ret.op = "rotated_back"
    /\ Val(ret.arg).angle_degrees = 60
    /\ Val(ret.arg).origin = Point3D(0, 100, 50)

\* The whole polygon of a profile encloses no area: its points lie on one
\* line (or coincide).
OnOneLine(pts) ==
    \A i, j, k \in DOMAIN pts :
        (pts[j].y - pts[i].y) * (pts[k].z - pts[i].z)
            = (pts[k].y - pts[i].y) * (pts[j].z - pts[i].z)

\* C18: the area computation on a degenerate profile (no points, fewer than
\* 3 points, or a polygon that encloses no area) returns zero and does not
\* fail.
DegenerateAreaIsZero ==
    (/\ ret.op = "calculate_area_below_waterline"
     /\ (Len(Val(section).points) < 3 \/ OnOneLine(Val(section).points)))
        => ret.raised = "" /\ ret.value = Some(0)

\* The computed volume at a waterline: the integral of the sectional areas
\* over the stations of the hull.
VolumeAt(k, waterline_z) ==
    LET stations == sorted(DOMAIN k.profiles)
    IN  integrate_simpson(stations,
            [i \in DOMAIN stations |->
                Val(calculate_area_below_waterline(k.profiles[stations[i]],
                                                   waterline_z).value)])

\* C11: a computed volume that is zero or negative is surfaced as a failure:
\* a centre-of-buoyancy curve is returned only when the volume computed at
\* each of its waterlines is positive, and no returned entry carries a
\* volume of zero put in its place.
ZeroVolumeIsSurfaced ==
    (ret.op = "calculate_cb_curve" /\ ret.raised = "") =>
        /\ \A i \in DOMAIN Val(ret.arg) : VolumeAt(Val(kayak), Val(ret.arg)[i]) > 0
        /\ \A i \in DOMAIN Val(ret.value) : Val(ret.value)[i].volume > 0

\* The stations of the profiles the hull holds, in ascending order without
\* repetition.
HeldStations == sorted(DOMAIN Val(kayak).profiles)

\* C20: after any sequence of add_profile, update_profile and remove_profile
\* calls, get_stations returns exactly the stations of the profiles the hull
\* holds, in ascending order without duplicates; the cached list is never
\* stale.
StationsNeverStale ==
    /\ (kayak # None /\ Val(kayak).sorted_stations # None) =>
          Val(Val(kayak).sorted_stations) = HeldStations
    /\ ret.op = "get_stations" =>
          /\ Val(ret.value) = HeldStations
          /\ StrictlyIncreasing(Val(ret.value))
          /\ {Val(ret.value)[i] : i \in DOMAIN Val(ret.value)} = DOMAIN Val(kayak).profiles

\* get_stations answered for a hull of two profiles, one of which was put in
\* place of another by update_profile after the stations had been cached.
StationsAskedAfterChanges ==
    /\ ret.op = "get_stations"
    /\ Val(ret.value) = <<0, 100>>
    /\ Val(kayak).profiles[0].points # Val(kayak).profiles[100].points

\* The curves supplied to the build of hull h.
Supplied(h) == (CHOOSE s \in Shapes : s.name = h.name).curves

\* The supplied curves with a point off the centerline.
OffCenterline(supplied) ==
    {i \in DOMAIN supplied :
        \E j \in DOMAIN supplied[i].points : supplied[i].points[j].y # 0}

\* The curves of h that are the mirror of the supplied curve c: named
\* "Mirror of <name>", flagged mirrored, every point's y negated.
MirrorsOf(h, c) ==
    {k \in DOMAIN h.curves :
        /\ h.curves[k].mirrored
        /\ h.curves[k].name = "Mirror of " \o c.name
        /\ h.curves[k].points =
              [j \in DOMAIN c.points |->
                  Point3D(c.points[j].x, -c.points[j].y, c.points[j].z)]}

\* C13: a build adds exactly one mirror curve (y negated, named "Mirror of
\* <name>", flagged mirrored) for each supplied curve with a point off the
\* centerline and none for a centerline curve; the hull's curves are the
\* supplied ones plus one per off-centerline curve.
OneMirrorPerOffCenterlineCurve ==
    (pc # "new" /\ hull.name \in {s.name : s \in Shapes}) =>
        LET supplied == Supplied(hull)
            off == OffCenterline(supplied)
        IN  /\ Len(hull.curves) = Len(supplied) + Cardinality(off)
            /\ Cardinality({k \in DOMAIN hull.curves : hull.curves[k].mirrored})
                  = Cardinality(off)
            /\ \A i \in DOMAIN supplied :
                  /\ Cardinality(MirrorsOf(hull, supplied[i])) = IF i \in off THEN 1 ELSE 0
                  /\ \E k \in DOMAIN hull.curves :
                        /\ ~hull.curves[k].mirrored
                        /\ hull.curves[k].name = supplied[i].name
                        /\ hull.curves[k].points = supplied[i].points

\* A finished build of keel, chine and gunwale: five curves, the keel
\* without a mirror.
BuiltWithCenterlineKeel ==
    /\ pc = "ready"
    /\ hull.name = "stub"
    /\ Len(hull.curves) = 5
    /\ OffCenterline(Supplied(hull)) = {2, 3}

\* The sampled stations of h at which fewer than 3 points are collected.
ThinStations(h) ==
    LET st == Stations(h.min_x, h.max_x)
    IN  {st[k] : k \in {n \in DOMAIN st : Len(get_points_at(h.curves, st[n])) < 3}}

NegativePastZero(pts) == {k \in DOMAIN pts : pts[k].gz < 0 /\ pts[k].angle > 0}

\* C21: with break_on_vanishing set, the sweep stops at the first heel angle
\* greater than zero whose GZ is negative: such a point is the last of the
\* list, the solver is not called for a larger angle, and a negative GZ at
\* angle 0 does not stop the sweep (the loop goes on to the next angle).
SweepStopsAtFirstNegativePastZero ==
    (sweep.args # None /\ Val(sweep.args).break_on_vanishing) =>
        /\ NegativePastZero(points) \subseteq {Len(points)}
        /\ pc = "sweep_solving" => NegativePastZero(points) = {}
        /\ (pc = "sweep_loop" /\ NegativePastZero(points) = {}) =>
              sweep.i = Len(points) + 1
        /\ (pc = "sweep_loop" /\ NegativePastZero(points) # {}) =>
              sweep.i > Len(sweep.angles)
        /\ \A k \in DOMAIN points : points[k].angle = sweep.angles[k]

\* A sweep with break_on_vanishing that returned early: its last point, past
\* angle 0, has a negative GZ and the angles after it were not solved.
SweepStoppedEarly ==
    /\ result # None
    /\ Val(sweep.args).break_on_vanishing
    /\ NegativePastZero(points) = {Len(points)}
    /\ Len(points) < Len(sweep.angles)

\* A sweep with break_on_vanishing whose GZ at angle 0 is negative and which
\* went on to the next angle.
SweepWentOnPastNegativeAtZero ==
    /\ sweep.args # None
    /\ Val(sweep.args).break_on_vanishing
    /\ Len(points) >= 2
    /\ points[1].angle = 0
    /\ points[1].gz < 0

\* The stability point of one heel angle solved on its own: the solver is
\* run from its first guess on hull h for the total mass, and the point is
\* derived from what it returns.
PointAlone(h, sw, angle_deg) ==
    CHOOSE point \in
        { StabilityPoint(h, Val(sw.combined_cg), sw.total_weight, angle_deg, sol) :
            sol \in { calculate_waterline(h, sw.total_weight, angle_deg) } } : TRUE

RECURSIVE OnePointEach(_, _, _, _, _)
OnePointEach(cs, which, x, pts, i) ==
    IF i > Len(cs) THEN pts = <<>>
    ELSE IF i \in which
    THEN /\ pts # <<>>
         /\ Head(pts).x = x
         /\ OnePointEach(cs, which, x, Tail(pts), i + 1)
    ELSE OnePointEach(cs, which, x, pts, i + 1)

\* C23, as stated: sampling the curves at a station never fails, and the
\* station receives exactly one point from each curve whose longitudinal
\* span contains it (an empty list if none does).
SampleTakesEachSpanningCurve ==
    ret.op = "sample" =>
        LET cs == Val(ret.arg).curves
            x == Val(ret.arg).x
            which == {i \in DOMAIN cs : SpanOf(cs[i]).low <= x /\ x <= SpanOf(cs[i]).high}
        IN  /\ ret.raised = ""
            /\ Len(Val(ret.value)) = Cardinality(which)
            /\ OnePointEach(cs, which, x, Val(ret.value), 1)

\* C23, amended: sampling the curves at a station never fails, and the
\* station receives exactly one point from each curve whose range between
\* its first and last control points contains it (an empty list if none
\* does); a curve whose x doubles back gives nothing at a station of its
\* span that lies beyond both its ends.
SampleTakesEachCurveBetweenItsEnds ==
    ret.op = "sample" =>
        LET cs == Val(ret.arg).curves
            x == Val(ret.arg).x
            which == {i \in DOMAIN cs : EndsOf(cs[i]).low <= x /\ x <= EndsOf(cs[i]).high}
        IN  /\ ret.raised = ""
            /\ Len(Val(ret.value)) = Cardinality(which)
            /\ OnePointEach(cs, which, x, Val(ret.value), 1)

\* A station sampled on two curves of which one does not reach it: one point
\* is collected.
SampledBesideShortCurve ==
    /\ ret.op = "sample"
    /\ Len(Val(ret.arg).curves) = 2
    /\ Val(ret.arg).x > SpanOf(Val(ret.arg).curves[1]).high
    /\ Len(Val(ret.value)) = 1

\* The edges of the polygon pts, the closing one from the last point back to
\* the first included, that pass through the height w.
CrossingEdges(pts, w) ==
    {i \in DOMAIN pts :
        LET p == pts[i]
            q == pts[(i % Len(pts)) + 1]
        IN  (p.z < w /\ w < q.z) \/ (q.z < w /\ w < p.z)}

\* C24: clipping a profile at a waterline does not fail and returns exactly
\* the profile's points at or below the waterline plus one point at the
\* waterline height for every edge of the polygon that crosses it, the
\* closing edge included; the result is empty if every point is above the
\* waterline or the profile has fewer than 3 points.
ClipKeepsBelowAndCrossings ==
    ret.op = "_get_submerged_polygon" =>
        LET pts == Val(section).points
            w == Val(ret.arg)
            below == {i \in DOMAIN pts : pts[i].z <= w}
        IN  /\ ret.raised = ""
            /\ IF Len(pts) < 3 \/ below = {}
               THEN Val(ret.value) = <<>>
               ELSE LET out == Val(ret.value)
                        cuts == {k \in DOMAIN out :
                                    \A i \in below : out[k] # pts[i]}
                    IN  /\ \A i \in below : \E k \in DOMAIN out : out[k] = pts[i]
                        /\ \A k \in cuts : out[k].z = w
                        /\ Cardinality(cuts) = Cardinality(CrossingEdges(pts, w))

\* The directions of the points of pts seen from their centre.
FromCentre(pts) ==
    LET c == [n |-> Len(pts),
              y |-> SumSeq([i \in DOMAIN pts |-> pts[i].y]),
              z |-> SumSeq([i \in DOMAIN pts |-> pts[i].z])]
    IN  [i \in DOMAIN pts |-> CentreVector(c, pts[i])]

\* The points go once around their centre: walking the list and back to its
\* start, the angle about the centre falls back at most once (turning one
\* way) or rises at most once (turning the other way).
OnceAround(pts) ==
    LET v == FromCentre(pts)
        next(i) == (i % Len(pts)) + 1
        falls == {i \in DOMAIN pts : AngleLess(v[next(i)], v[i])}
        rises == {i \in DOMAIN pts : AngleLess(v[i], v[next(i)])}
    IN  Cardinality(falls) <= 1 \/ Cardinality(rises) <= 1

\* C25: after a Profile is constructed from a list of points, no two of its
\* points coincide and its points are in a single circular order around
\* their centroid, whatever the order of the input.
ProfileIsDeduplicatedAndSorted ==
    (ret.op = "Profile" /\ ret.raised = "") =>
        LET pts == Val(section).points
        IN  /\ \A i, j \in DOMAIN pts : pts[i] = pts[j] => i = j
            /\ Len(pts) >= 3 => OnceAround(pts)

\* C26: a rotation by +90 degrees about the longitudinal axis through the
\* origin maps a point (x, 0, z) above the axis to (x, z, 0), the point
\* (x, 0, 1) to (x, 1, 0), both when applied to a single point by rotate_x
\* and when applied to the control points of a curve by
\* apply_rotation_on_x_axis.
QuarterTurnTakesUpToStarboard ==
    /\ (ret.op = "rotate_x" /\ Val(ret.arg).angle_degrees = 90
            /\ Val(ret.arg).point.y = 0) =>
          Val(ret.value) = Point3D(Val(ret.arg).point.x, Val(ret.arg).point.z, 0)
    /\ (ret.op = "apply_rotation_on_x_axis" /\ Val(ret.arg).angle_degrees = 90
            /\ Val(ret.arg).origin = Point3D(0, 0, 0)) =>
          \A i \in DOMAIN Val(curve).points :
              Val(curve).points[i].y = 0 =>
                  Val(ret.value).points[i] =
                      Point3D(Val(curve).points[i].x, Val(curve).points[i].z, 0)

\* C26 for rotate_x alone.
QuarterTurnOfPoint ==
    (ret.op = "rotate_x" /\ Val(ret.arg).angle_degrees = 90
        /\ Val(ret.arg).point.y = 0) =>
      Val(ret.value) = Point3D(Val(ret.arg).point.x, Val(ret.arg).point.z, 0)

\* The solver run on its own for every angle of the sweep sw on hull h.
SolvedAlone(h, sw) ==
    [k \in DOMAIN sw.angles |-> calculate_waterline(h, sw.total_weight, sw.angles[k])]

\* What the sweep sw reports when it runs over all its angles, given what
\* the solver returns for each of them.
SummaryOfAll(h, sw, sols) ==
    ScanPoints([k \in DOMAIN sols |->
                  StabilityPoint(h, Val(sw.combined_cg), sw.total_weight,
                                 sw.angles[k], sols[k])])

\* C27: early stop only shortens the list of points: for the same hull,
\* masses, max_angle and step, a sweep with break_on_vanishing reports the
\* vanishing angle, the largest moment and its angle that the sweep over all
\* the angles reports (where that one returns).
EarlyStopKeepsSummary ==
    (result # None /\ Val(sweep.args).break_on_vanishing) =>
        \A sols \in { SolvedAlone(hull, sweep) } :
            (\A k \in DOMAIN sols : sols[k].status = "converged") =>
                \A all \in { SummaryOfAll(hull, sweep, sols) } :
                    /\ Val(result).vanishing_angle = all.vanishing_angle
                    /\ Val(result).max_moment = all.max_moment
                    /\ Val(result).max_moment_angle = all.max_moment_angle
\* The operations of the hull routes.
RouteOps == {"create_hull", "update_hull", "delete_hull"}

\* The answers by which a request is rejected: the name is taken, the hull is
\* missing, the build raised a waterline error.
Rejections == {"HTTP 409", "HTTP 404", "HTTP 400"}

\* C28: a hull request rejected with 409 (create of an existing name), 404
\* (update or delete of a missing hull) or 400 (the build raises a waterline
\* error) leaves the set of stored hull files and the content of each file
\* exactly as it was before the request.
RejectedRequestLeavesStore ==
    [][ (ret'.op \in RouteOps /\ ret'.raised \in Rejections) => files' = files ]_vars

\* C29: a request changes no stored hull but the one it addresses: every file
\* other than the file of the addressed hull name that was stored before the
\* request is stored after it with the same content; in particular an update
\* under a new name neither removes nor overwrites a different stored hull.
RequestSparesOtherHulls ==
    [][ ret'.op \in RouteOps =>
          \A f \in FileNames :
              (f # sanitize_filename(Val(ret'.arg).hull_name) /\ files[f] # None)
                  => files'[f] = files[f] ]_vars

\* C30: of two create requests for the same hull name handled at the same
\* time at most one succeeds and the other is rejected; the stored file holds
\* the hull of the request that succeeded.
OneCreateWins ==
    \A c1 \in Clients, c2 \in Clients :
        ( /\ c1 # c2
          /\ reqs[c1].pc = "done" /\ reqs[c2].pc = "done"
          /\ Val(reqs[c1].model).name = Val(reqs[c2].model).name
          /\ reqs[c1].status = 200 )
        => /\ reqs[c2].status # 200
           /\ files[sanitize_filename(Val(reqs[c1].model).name)]
                = Some(BuildOf(Val(reqs[c1].model)).hull)

=============================================================================
